---- MODULE Spec2Model ----
(***************************************************************************)
(* Model of simple.py: the download-progress classifier embedded in        *)
(* process_single_video (the loop reading the output of the external       *)
(* download process) and the request / playlist / temporary-directory      *)
(* life cycle around it (BatchRequestHandler.do_GET), and of the subtitle   *)
(* functions of the audio post-processing (convert_srt_timestamp,          *)
(* fix_TED_lyrics_before_embedding_in_mp3, embed_lyrics_in_mp3).           *)
(*                                                                         *)
(* Text is modelled as sequences of one-character strings so that Python's *)
(* "x in s", str.lower() and re.search are computed, not assumed.          *)
(***************************************************************************)
EXTENDS Integers, Sequences, FiniteSets, TLC

\* ------------------------------------------------------------------------
\* Bounds of the model
\* ------------------------------------------------------------------------
\* lines the external process writes during one run
MaxLines == 4
\* lines the stdout pipe holds before the writer blocks
PipeCap == 1
\* lines the external process writes during one run of a request
MaxReqLines == 2
\* entries of a playlist
MaxItems == 2

\* ------------------------------------------------------------------------
\* String literals of the source
\* ------------------------------------------------------------------------
\* simple.py:1228  "[download]" in output
DOWNLOAD_TAG ==
    <<"[","d","o","w","n","l","o","a","d","]">>
\* simple.py:1228  "Destination:" in output
DESTINATION_TAG ==
    <<"D","e","s","t","i","n","a","t","i","o","n",":">>
\* simple.py:1238  markers tested in the TED branch
TED_METADATA_EXTS ==
    {<<".","v","t","t">>,
     <<".","s","r","t">>,
     <<".","j","s","o","n">>,
     <<".","j","p","g">>,
     <<".","p","n","g">>}
\* simple.py:1254
METADATA_EXTS ==
    {<<".","s","r","t">>,
     <<".","v","t","t">>,
     <<".","j","p","g">>,
     <<".","p","n","g">>,
     <<".","j","s","o","n">>,
     <<".","y","t","d","l">>}
\* simple.py:1258
AUDIO_EXTS ==
    {<<".","m","4","a">>,
     <<".","m","p","3">>,
     <<".","a","a","c">>,
     <<".","o","p","u","s">>,
     <<".","w","e","b","a">>,
     <<".","o","g","g">>,
     <<".","w","a","v">>,
     <<".","f","l","a","c">>,
     <<".","a","c","3">>,
     <<".","m","k","a">>}
\* simple.py:1260  ".f" in output
DOT_F ==
    <<".","f">>
\* simple.py:1260
AUDIO_FORMAT_IDS ==
    {<<"1","4","0">>,
     <<"2","4","9">>,
     <<"2","5","0">>,
     <<"2","5","1">>,
     <<"1","3","9">>,
     <<"1","7","1">>,
     <<"2","5","8">>}
\* simple.py:1262
AUDIO_INDICATORS ==
    {<<"a","u","d","i","o"," ","o","n","l","y">>,
     <<"a","u","d","i","o","_","o","n","l","y">>,
     <<"a","u","d","i","o"," ","s","t","r","e","a","m">>,
     <<"a","u","d","i","o"," ","t","r","a","c","k">>,
     <<"a","u","d","i","o","-","o","n","l","y">>}
\* simple.py:1264
AUDIO_PATTERNS ==
    {<<"a","u","d","i","o","-","h","i","g","h">>,
     <<"-","a","u","d","i","o","-">>,
     <<"d","a","s","h","_","a","u","d","i","o">>,
     <<"a","u","d","i","o","_","t","r","a","c","k">>,
     <<"a","u","d","i","o","-","t","r","a","c","k">>,
     <<"a","u","d","i","o","_","m","p","4">>,
     <<"a","u","d","i","o","-","m","p","4">>,
     <<"m","p","4","-","a","u","d","i","o">>,
     <<"a","u","d","i","o","_","s","e","g","m","e","n","t">>,
     <<"a","u","d","i","o","=">>,
     <<"a","u","d","i","o","_","o","n","l","y","=","t","r","u","e">>}
\* simple.py:1270  the literal tail "% of" of the progress pattern
PERCENT_OF ==
    <<"%"," ","o","f">>
\* characters matched by \s and by \d in the progress pattern
WHITESPACE ==
    {" ", "\t", "\n", "\r", "\f"}
DIGIT_CHARS ==
    {"0","1","2","3","4","5","6","7","8","9"}
UPPER ==
    <<"A","B","C","D","E","F","G","H","I","J","K","L","M","N","O","P","Q","R","S","T","U","V","W","X","Y","Z">>
LOWER ==
    <<"a","b","c","d","e","f","g","h","i","j","k","l","m","n","o","p","q","r","s","t","u","v","w","x","y","z">>

\* ------------------------------------------------------------------------
\* Output lines of the external process used as inputs (each ends in "\n",
\* as readline() returns it)
\* ------------------------------------------------------------------------
\* a subtitle file is announced
LnSubs ==
    <<"[","d","o","w","n","l","o","a","d","]"," ","D","e","s","t","i","n","a","t","i","o","n",":"," ","f","o","o",".","s","r","t","\n">>
\* an audio container is announced
LnAudio ==
    <<"[","d","o","w","n","l","o","a","d","]"," ","D","e","s","t","i","n","a","t","i","o","n",":"," ","f","o","o",".","m","4","a","\n">>
\* a video stream is announced
LnVideo ==
    <<"[","d","o","w","n","l","o","a","d","]"," ","D","e","s","t","i","n","a","t","i","o","n",":"," ","f","o","o",".","f","1","3","7",".","m","p","4","\n">>
\* percentage update
LnPct10 ==
    <<"[","d","o","w","n","l","o","a","d","]"," "," ","1","0",".","0","%"," ","o","f"," ","5",".","0","0","M","i","B","\n">>
\* percentage update
LnPct50 ==
    <<"[","d","o","w","n","l","o","a","d","]"," "," ","5","0",".","0","%"," ","o","f"," ","5",".","0","0","M","i","B","\n">>
\* post-processor line: "Destination:" without "[download]"
LnExtract ==
    <<"[","E","x","t","r","a","c","t","A","u","d","i","o","]"," ","D","e","s","t","i","n","a","t","i","o","n",":"," ","f","o","o",".","m","p","3","\n">>
\* a title that itself reads like a percentage update (-o "%(title)s.%(ext)s")
LnBoth ==
    <<"[","d","o","w","n","l","o","a","d","]"," ","D","e","s","t","i","n","a","t","i","o","n",":"," ","[","d","o","w","n","l","o","a","d","]"," ","5",".","0","%"," ","o","f"," ","f","o","o",".","m","p","4","\n">>
\* an empty line
LnEmpty ==
    <<"\n">>
\* completion line: no decimal point, so the pattern does not match
LnDone ==
    <<"[","d","o","w","n","l","o","a","d","]"," ","1","0","0","%"," ","o","f"," ","5",".","0","0","M","i","B","\n">>

\* the lines the process may write in the classifier specification
Lines ==
    {LnSubs, LnAudio, LnVideo, LnPct10, LnPct50, LnExtract, LnBoth, LnEmpty, LnDone}

\* the lines it may write where only the end of the loop is of interest
FairLines ==
    {LnVideo, LnPct50, LnEmpty}

\* the lines it may write during the runs of a request
ReqLines ==
    {LnVideo, LnPct50}

\* Destination lines for the phase decision: "[download] Destination: foo"
\* followed by one infix and one suffix, so that every marker, extension,
\* format id and indicator of the source occurs alone and next to a marker
DEST_PREFIX ==
    <<"[","d","o","w","n","l","o","a","d","]"," ","D","e","s","t","i","n","a","t","i","o","n",":"," ","f","o","o">>

NAME_INFIXES ==
    {<< >>,
     <<".","f","1","3","7">>,
     <<" ","1","4","0">>,
     <<".","F","1","4","0">>,
     <<".","M","4","A">>,
     <<" ","A","u","d","i","o"," ","O","n","l","y">>,
     <<".","m","4","a">>,
     <<".","m","p","3">>,
     <<".","a","a","c">>,
     <<".","o","p","u","s">>,
     <<".","w","e","b","a">>,
     <<".","o","g","g">>,
     <<".","w","a","v">>,
     <<".","f","l","a","c">>,
     <<".","a","c","3">>,
     <<".","m","k","a">>,
     <<".","f","1","4","0">>,
     <<".","f","2","4","9">>,
     <<".","f","2","5","0">>,
     <<".","f","2","5","1">>,
     <<".","f","1","3","9">>,
     <<".","f","1","7","1">>,
     <<".","f","2","5","8">>,
     <<" ","a","u","d","i","o"," ","o","n","l","y">>,
     <<" ","a","u","d","i","o","_","o","n","l","y">>,
     <<" ","a","u","d","i","o"," ","s","t","r","e","a","m">>,
     <<" ","a","u","d","i","o"," ","t","r","a","c","k">>,
     <<" ","a","u","d","i","o","-","o","n","l","y">>,
     <<" ","a","u","d","i","o","-","h","i","g","h">>,
     <<" ","-","a","u","d","i","o","-">>,
     <<" ","d","a","s","h","_","a","u","d","i","o">>,
     <<" ","a","u","d","i","o","_","t","r","a","c","k">>,
     <<" ","a","u","d","i","o","-","t","r","a","c","k">>,
     <<" ","a","u","d","i","o","_","m","p","4">>,
     <<" ","a","u","d","i","o","-","m","p","4">>,
     <<" ","m","p","4","-","a","u","d","i","o">>,
     <<" ","a","u","d","i","o","_","s","e","g","m","e","n","t">>,
     <<" ","a","u","d","i","o","=">>,
     <<" ","a","u","d","i","o","_","o","n","l","y","=","t","r","u","e">>}

NAME_SUFFIXES ==
    {<<".","m","p","4">>,
     <<".","w","e","b","m">>,
     <<".","s","r","t">>,
     <<".","v","t","t">>,
     <<".","j","p","g">>,
     <<".","p","n","g">>,
     <<".","j","s","o","n">>,
     <<".","y","t","d","l">>,
     <<".","S","R","T">>,
     <<".","e","n",".","v","t","t",".","p","a","r","t">>}

PhaseLines ==
    {DEST_PREFIX \o p \o q \o <<"\n">> : p \in NAME_INFIXES, q \in NAME_SUFFIXES}

\* ------------------------------------------------------------------------
\* Python string primitives
\* ------------------------------------------------------------------------
\* sub in s
Contains(sub, s) ==
    \E i \in 0..(Len(s) - Len(sub)) : SubSeq(s, i + 1, i + Len(sub)) = sub

\* any(x in s for x in xs)
ContainsAny(xs, s) ==
    \E x \in xs : Contains(x, s)

LowerChar(c) ==
    IF \E k \in 1..Len(UPPER) : UPPER[k] = c
    THEN LOWER[CHOOSE k \in 1..Len(UPPER) : UPPER[k] = c]
    ELSE c

\* s.lower()
Lower(s) ==
    [i \in 1..Len(s) |-> LowerChar(s[i])]

\* last index of the maximal run of characters of cs that starts at i
\* (i - 1 when s[i] is not in cs): how a greedy \s+ or \d+ consumes
RunEnd(s, i, cs) ==
    CHOOSE e \in (i - 1)..Len(s) :
        /\ \A x \in i..e : s[x] \in cs
        /\ e = Len(s) \/ s[e + 1] \notin cs

\* re.search(r'\[download\]\s+(\d+\.\d+)% of', s) matching at position i:
\* <<>> when it does not match there, else group(1)
ProgressGroupAt(s, i) ==
    LET a == i + Len(DOWNLOAD_TAG)
        b == RunEnd(s, a, WHITESPACE)
        c == RunEnd(s, b + 1, DIGIT_CHARS)
        d == RunEnd(s, c + 2, DIGIT_CHARS)
    IN  IF /\ a - 1 <= Len(s)
           /\ SubSeq(s, i, a - 1) = DOWNLOAD_TAG
           /\ b >= a
           /\ c >= b + 1
           /\ c + 1 <= Len(s)
           /\ s[c + 1] = "."
           /\ d >= c + 2
           /\ d + Len(PERCENT_OF) <= Len(s)
           /\ SubSeq(s, d + 1, d + Len(PERCENT_OF)) = PERCENT_OF
        THEN SubSeq(s, b + 1, d)
        ELSE <<>>

\* progress_match: group(1) of the leftmost match, <<>> for None
progress_match(s) ==
    LET at == {i \in 1..Len(s) : ProgressGroupAt(s, i) # <<>>}
    IN  IF at = {} THEN <<>>
        ELSE ProgressGroupAt(s, CHOOSE i \in at : \A j \in at : i <= j)

\* ------------------------------------------------------------------------
\* The classifier of process_single_video
\* ------------------------------------------------------------------------
\* variant: the "[download]" test is left out
IsDestination_loose(output) ==
    Contains(DESTINATION_TAG, output)

\* "[download]" in output and "Destination:" in output
IsDestination(output) ==
    Contains(DOWNLOAD_TAG, output) /\ Contains(DESTINATION_TAG, output)

\* variant: the marker test is made on the text as written, not lower-cased
TedPhase_case_sensitive(output, count) ==
    IF ContainsAny(TED_METADATA_EXTS, output) THEN "metadata"
    ELSE IF count = 2 THEN "video"
    ELSE IF count = 3 THEN "audio"
    ELSE "metadata"

\* variant: additional files default to video
TedPhase_fallback_video(output, count) ==
    IF ContainsAny(TED_METADATA_EXTS, Lower(output)) THEN "metadata"
    ELSE IF count = 2 THEN "video"
    ELSE IF count = 3 THEN "audio"
    ELSE IF count = 1 THEN "metadata"
    ELSE "video"

\* the TED branch: marker test first, then the ordinal of the announcement
TedPhase(output, count) ==
    IF ContainsAny(TED_METADATA_EXTS, Lower(output)) THEN "metadata"
    ELSE IF count = 2 THEN "video"
    ELSE IF count = 3 THEN "audio"
    ELSE "metadata"

\* ".f" in output and any(format_id in output ...): both case-sensitive
HasAudioFormatId(output) ==
    Contains(DOT_F, output) /\ ContainsAny(AUDIO_FORMAT_IDS, output)

\* variant: the audio-only test is made before the marker test
SitePhase_audio_only_first(output, ao) ==
    IF ao THEN "audio"
    ELSE IF ContainsAny(METADATA_EXTS, Lower(output)) THEN "metadata"
    ELSE IF ContainsAny(AUDIO_EXTS, Lower(output)) THEN "audio"
    ELSE IF HasAudioFormatId(output) THEN "audio"
    ELSE IF ContainsAny(AUDIO_INDICATORS, Lower(output)) THEN "audio"
    ELSE IF ContainsAny(AUDIO_PATTERNS, Lower(output)) THEN "audio"
    ELSE "video"

\* the branch for all other sites (and for audio-only TED runs)
SitePhase(output, ao) ==
    IF ContainsAny(METADATA_EXTS, Lower(output)) THEN "metadata"
    ELSE IF ao THEN "audio"
    ELSE IF ContainsAny(AUDIO_EXTS, Lower(output)) THEN "audio"
    ELSE IF HasAudioFormatId(output) THEN "audio"
    ELSE IF ContainsAny(AUDIO_INDICATORS, Lower(output)) THEN "audio"
    ELSE IF ContainsAny(AUDIO_PATTERNS, Lower(output)) THEN "audio"
    ELSE "video"

\* if is_ted_video and not audio_only
TedOrdinalMode(ted, ao) ==
    ted /\ ~ao

\* the flag set by a Destination line, count being the incremented counter
DetectPhase(output, count, ted, ao) ==
    IF TedOrdinalMode(ted, ao) THEN TedPhase(output, count)
    ELSE SitePhase(output, ao)

\* the message chosen by the if/elif chain of the progress branch
MessagePhase(metadata, video, audio) ==
    IF metadata THEN "metadata"
    ELSE IF video THEN "video"
    ELSE IF audio THEN "audio"
    ELSE "unknown"

\* download_count += 1, inside the Destination branch only
count_after(dest, count) ==
    IF dest THEN count + 1 ELSE count

\* variant: the flags are reset for every line read
flag_after_reset_always(dest, phase, kind, old) ==
    dest /\ phase = kind

\* variant: a Destination line sets its flag without the reset before it
flag_after_no_reset(dest, phase, kind, old) ==
    IF dest THEN (phase = kind \/ old) ELSE old

\* a flag after one line: reset and set again by a Destination line (phase
\* is the branch taken), untouched by every other line
flag_after(dest, phase, kind, old) ==
    IF dest THEN phase = kind ELSE old

\* download_sequence.append(...), in the TED branch only
sequence_after(dest, ordinal, phase, seq) ==
    IF dest /\ ordinal THEN Append(seq, phase) ELSE seq

\* variant: nothing is reported until a phase is known
events_after_known_phase(evts, progress, phase) ==
    IF progress # <<>> /\ phase # "unknown"
    THEN Append(evts, [phase |-> phase, percent |-> progress])
    ELSE evts

\* the progress branch: one message per line the pattern matches
events_after(evts, progress, phase) ==
    IF progress # <<>>
    THEN Append(evts, [phase |-> phase, percent |-> progress])
    ELSE evts

\* variant: "or" in place of "and"
LoopBreaks_either(output, p) ==
    output = <<>> \/ p = "exited"

\* if output == "" and process.poll() is not None: break
LoopBreaks(output, p) ==
    output = <<>> /\ p = "exited"

\* variant: the classifier state outlives the run (module-level state)
stale_classifier(old) ==
    old

\* Clear flags for download type detection / State tracking: the locals of
\* a run as assigned before Popen, whatever an earlier run left
fresh_classifier(old) ==
    [audio |-> FALSE, video |-> FALSE, metadata |-> FALSE,
     count |-> 0, sequence |-> <<>>]

\* the lines any specification of this module feeds to the loop
KnownLines ==
    Lines \cup PhaseLines

\* the counter values a Destination line can produce
CountRange ==
    1..(MaxLines + 1)

\* The three tests of one loop iteration, tabulated once per line: the
\* values are those of IsDestination, progress_match and DetectPhase.
destination_of ==
    [l \in KnownLines |-> IsDestination(l)]

progress_of ==
    [l \in KnownLines |-> progress_match(l)]

phase_of ==
    [l \in KnownLines |->
        [ted \in BOOLEAN |-> [ao \in BOOLEAN |->
            [n \in CountRange |-> DetectPhase(l, n, ted, ao)]]]]

\* ------------------------------------------------------------------------
\* Subtitle timestamps: convert_srt_timestamp and add_offset
\* ------------------------------------------------------------------------
\* the characters 0..9 in order: int() and the d presentation type
DIGITS ==
    <<"0","1","2","3","4","5","6","7","8","9">>

\* int(c) of one digit character
DigitValue(c) ==
    (CHOOSE k \in 1..10 : DIGITS[k] = c) - 1

\* int(s) of a string of digits
RECURSIVE int_of(_)
int_of(s) ==
    IF s = <<>> THEN 0
    ELSE 10 * int_of(SubSeq(s, 1, Len(s) - 1)) + DigitValue(s[Len(s)])

\* f"{n:d}", n >= 0
RECURSIVE format_d(_)
format_d(n) ==
    IF n < 10 THEN <<DIGITS[n + 1]>>
    ELSE format_d(n \div 10) \o <<DIGITS[(n % 10) + 1]>>

\* f"{n:0<width>d}": zero padding up to width, never truncation
format_0d(n, width) ==
    LET d == format_d(n)
    IN  [i \in 1..(width - Len(d)) |-> "0"] \o d

\* \d{2}:\d{2}:\d{2}<sep>\d{3} matching s at position i (the 12 characters
\* from i on; what follows them is not looked at)
timestamp_at(s, i, sep) ==
    /\ i >= 1
    /\ i + 11 <= Len(s)
    /\ \A k \in {0, 1, 3, 4, 6, 7, 9, 10, 11} : s[i + k] \in DIGIT_CHARS
    /\ s[i + 2] = ":"
    /\ s[i + 5] = ":"
    /\ s[i + 8] = sep

\* convert_srt_timestamp with ms // 10 replaced by round-half-up
convert_srt_timestamp_rounded(srt_time) ==
    IF ~timestamp_at(srt_time, 1, ",") THEN <<>>
    ELSE LET h == int_of(SubSeq(srt_time, 1, 2))
             m == int_of(SubSeq(srt_time, 4, 5))
             s == int_of(SubSeq(srt_time, 7, 8))
             ms == int_of(SubSeq(srt_time, 10, 12))
             total_minutes == h * 60 + m
         IN  <<"[">> \o format_0d(total_minutes, 2) \o <<":">>
                 \o format_0d(s, 2) \o <<".">>
                 \o format_0d((ms + 5) \div 10, 2) \o <<"]">>

\* convert_srt_timestamp(srt_time): re.match anchors the pattern at the start
\* of srt_time only; <<>> is None
convert_srt_timestamp(srt_time) ==
    IF ~timestamp_at(srt_time, 1, ",") THEN <<>>
    ELSE LET h == int_of(SubSeq(srt_time, 1, 2))
             m == int_of(SubSeq(srt_time, 4, 5))
             s == int_of(SubSeq(srt_time, 7, 8))
             ms == int_of(SubSeq(srt_time, 10, 12))
             total_minutes == h * 60 + m
         IN  <<"[">> \o format_0d(total_minutes, 2) \o <<":">>
                 \o format_0d(s, 2) \o <<".">>
                 \o format_0d(ms \div 10, 2) \o <<"]">>

\* ms = int(start_parts[1]) + 3585
OFFSET_MS == 3585

\* " --> " between the two timestamps of a pair
ARROW ==
    <<" ","-","-",">"," ">>

\* offset_time without the carry of the seconds into the minutes
offset_time_no_minute_carry(t) ==
    LET h0 == int_of(SubSeq(t, 1, 2))
        m0 == int_of(SubSeq(t, 4, 5))
        s0 == int_of(SubSeq(t, 7, 8))
        ms0 == int_of(SubSeq(t, 10, 12)) + OFFSET_MS
        s1 == s0 + ms0 \div 1000
        ms == ms0 % 1000
        m1 == m0
        s == s1 % 60
        h == h0 + m1 \div 60
        m == m1 % 60
    IN  format_0d(h, 2) \o <<":">> \o format_0d(m, 2) \o <<":">>
            \o format_0d(s, 2) \o <<",">> \o format_0d(ms, 3)

\* the half of add_offset that is written once for start and once for end:
\* split at the comma and the colons, add the offset, carry, format
offset_time(t) ==
    LET h0 == int_of(SubSeq(t, 1, 2))
        m0 == int_of(SubSeq(t, 4, 5))
        s0 == int_of(SubSeq(t, 7, 8))
        ms0 == int_of(SubSeq(t, 10, 12)) + OFFSET_MS
        s1 == s0 + ms0 \div 1000
        ms == ms0 % 1000
        m1 == m0 + s1 \div 60
        s == s1 % 60
        h == h0 + m1 \div 60
        m == m1 % 60
    IN  format_0d(h, 2) \o <<":">> \o format_0d(m, 2) \o <<":">>
            \o format_0d(s, 2) \o <<",">> \o format_0d(ms, 3)

\* add_offset(match), match.groups() = <<start, end>>
add_offset(match) ==
    offset_time(match[1]) \o ARROW \o offset_time(match[2])

\* ------------------------------------------------------------------------
\* Subtitle documents: a text is the sequence of its lines, the lines being
\* what stands between its "\n" characters (a text that ends with "\n" has
\* an empty last line; the empty text is one empty line)
\* ------------------------------------------------------------------------
\* the literal pair of the repair pattern
ZERO_PAIR ==
    <<"0","0",":","0","0",":","0","0",",","0","0","0"," ","-","-",">"," ","0","0",":","0","0",":","0","0",",","0","0","1">>

\* " -- " between the two timestamps of the secondary line
DASHES ==
    <<" ","-","-"," ">>

\* a line that \s* can run across
is_blank(line) ==
    \A i \in 1..Len(line) : line[i] \in WHITESPACE

\* \d+ matching a whole line
is_index(line) ==
    /\ line # <<>>
    /\ \A i \in 1..Len(line) : line[i] \in DIGIT_CHARS

\* (\d{2}:\d{2}:\d{2})\.(\d{3}) -- (\d{2}:\d{2}:\d{2})\.(\d{3}) matching a
\* whole line
is_secondary(line) ==
    /\ Len(line) = 28
    /\ timestamp_at(line, 1, ".")
    /\ SubSeq(line, 13, 16) = DASHES
    /\ timestamp_at(line, 17, ".")

\* \d{2}:\d{2}:\d{2}, at the start of a line (the end of the lookahead)
starts_with_time(line) ==
    /\ Len(line) >= 9
    /\ \A k \in {1, 2, 4, 5, 7, 8} : line[k] \in DIGIT_CHARS
    /\ line[3] = ":"
    /\ line[6] = ":"
    /\ line[9] = ","

\* the line of the secondary pair when the repair pattern matches with its
\* leading "1" at the end of line i, 0 when it does not match there:
\*   1 \n ZERO_PAIR \n \s* \n secondary \n (.*?) \n (?= \d+ \n DD:DD:DD, )
pattern_at(content, i) ==
    LET n == Len(content)
        after == {j \in (i + 2)..n : ~is_blank(content[j])}
        j == IF after = {} THEN 0
             ELSE CHOOSE x \in after : \A y \in after : x <= y
    IN  IF /\ content[i] # <<>>
           /\ content[i][Len(content[i])] = "1"
           /\ i + 1 <= n
           /\ content[i + 1] = ZERO_PAIR
           /\ j >= i + 3
           /\ is_secondary(content[j])
           /\ \E k \in (j + 2)..(n - 1) :
                 is_index(content[k]) /\ starts_with_time(content[k + 1])
        THEN j
        ELSE 0

\* \1,\2 --> \3,\4 of the replacement
secondary_to_pair(line) ==
    SubSeq(line, 1, 8) \o <<",">> \o SubSeq(line, 10, 12) \o ARROW
        \o SubSeq(line, 17, 24) \o <<",">> \o SubSeq(line, 26, 28)

\* the replacement of one match: the "1" stays, the pair line and the blank
\* lines go, the secondary line becomes the pair, group 5 stays
replace_at(content, i) ==
    LET j == pattern_at(content, i)
    IN  SubSeq(content, 1, i) \o <<secondary_to_pair(content[j])>>
            \o SubSeq(content, j + 1, Len(content))

\* re.sub(pattern, replacement, content, flags=re.DOTALL) without count=1:
\* every match is replaced, from the last to the first
RECURSIVE fix_first_block_every_match(_)
fix_first_block_every_match(content) ==
    LET at == {i \in 1..Len(content) : pattern_at(content, i) # 0}
    IN  IF at = {} THEN content
        ELSE fix_first_block_every_match(
                 replace_at(content, CHOOSE i \in at : \A x \in at : x <= i))

\* content = re.sub(pattern, replacement, content, count=1, flags=re.DOTALL):
\* the leftmost match, wherever in the text it starts
fix_first_block(content) ==
    LET at == {i \in 1..Len(content) : pattern_at(content, i) # 0}
    IN  IF at = {} THEN content
        ELSE replace_at(content, CHOOSE i \in at : \A x \in at : i <= x)

\* (\d{2}:\d{2}:\d{2},\d{3}) --> (\d{2}:\d{2}:\d{2},\d{3}) matching at i
pair_at(line, i) ==
    /\ i + 28 <= Len(line)
    /\ timestamp_at(line, i, ",")
    /\ SubSeq(line, i + 12, i + 16) = ARROW
    /\ timestamp_at(line, i + 17, ",")

\* re.sub(pair pattern, add_offset, line) from position i on: the matches
\* from left to right, none overlapping the one before
RECURSIVE sub_add_offset(_, _)
sub_add_offset(line, i) ==
    IF i > Len(line) THEN <<>>
    ELSE IF pair_at(line, i)
    THEN add_offset(<<SubSeq(line, i, i + 11), SubSeq(line, i + 17, i + 28)>>)
             \o sub_add_offset(line, i + 29)
    ELSE <<line[i]>> \o sub_add_offset(line, i + 1)

\* the second re.sub stopping after the first line it changed
apply_offset_first_only(content) ==
    LET hit == {i \in 1..Len(content) :
                   sub_add_offset(content[i], 1) # content[i]}
    IN  [i \in 1..Len(content) |->
            IF hit # {} /\ i = (CHOOSE x \in hit : \A y \in hit : x <= y)
            THEN sub_add_offset(content[i], 1) ELSE content[i]]

\* content = re.sub(pair pattern, add_offset, content): the pattern has no
\* "\n", so it is applied line by line
apply_offset(content) ==
    [i \in 1..Len(content) |-> sub_add_offset(content[i], 1)]

\* what fix_TED_lyrics_before_embedding_in_mp3 writes back to srt_file
fix_TED_lyrics_before_embedding_in_mp3(content) ==
    apply_offset(fix_first_block(content))

\* ------------------------------------------------------------------------
\* The lyric transcript: embed_lyrics_in_mp3 up to "if not lrc_lines"
\* ------------------------------------------------------------------------
\* re.sub(r'\\h+', ' ', line) from position i on: a backslash followed by
\* one or more "h" becomes one space
RECURSIVE sub_h(_, _)
sub_h(line, i) ==
    IF i > Len(line) THEN <<>>
    ELSE IF line[i] = "\\" /\ i < Len(line) /\ line[i + 1] = "h"
    THEN <<" ">> \o sub_h(line, RunEnd(line, i + 1, {"h"}) + 1)
    ELSE <<line[i]>> \o sub_h(line, i + 1)

\* s.lstrip() and s.rstrip() of one line
lstrip(s) ==
    SubSeq(s, RunEnd(s, 1, WHITESPACE) + 1, Len(s))

rstrip(s) ==
    LET keep == {i \in 1..Len(s) : s[i] \notin WHITESPACE}
    IN  IF keep = {} THEN <<>>
        ELSE SubSeq(s, 1, CHOOSE i \in keep : \A j \in keep : j <= i)

\* content.strip(): the blank lines at both ends go with the white space
\* around the first and the last character that is not white space
strip(content) ==
    LET keep == {i \in 1..Len(content) : ~is_blank(content[i])}
        first == CHOOSE i \in keep : \A j \in keep : i <= j
        last == CHOOSE i \in keep : \A j \in keep : j <= i
    IN  IF keep = {} THEN <<<<>>>>
        ELSE [i \in 1..(last - first + 1) |->
                 LET l == content[first + i - 1]
                     a == IF i = 1 THEN lstrip(l) ELSE l
                 IN  IF first + i - 1 = last THEN rstrip(a) ELSE a]

\* number of lines before the first empty line
RECURSIVE block_length(_)
block_length(content) ==
    IF content = <<>> \/ Head(content) = <<>> THEN 0
    ELSE 1 + block_length(Tail(content))

\* re.split(r'\n\n+', text) followed by block.split('\n') for each block:
\* the text is cut at every run of empty lines (text has no empty line at
\* either end, unless it is the empty text, which is one block of one line)
RECURSIVE split_blocks(_)
split_blocks(content) ==
    IF content = <<>> THEN <<>>
    ELSE IF content = <<<<>>>> THEN <<content>>
    ELSE IF Head(content) = <<>> THEN split_blocks(Tail(content))
    ELSE LET n == block_length(content)
         IN  <<SubSeq(content, 1, n)>>
                 \o split_blocks(SubSeq(content, n + 1, Len(content)))

\* timestamp_line.split(' --> ')
RECURSIVE split_arrow(_)
split_arrow(line) ==
    LET at == {i \in 1..(Len(line) - Len(ARROW) + 1) :
                  SubSeq(line, i, i + Len(ARROW) - 1) = ARROW}
        i == CHOOSE x \in at : \A y \in at : x <= y
    IN  IF at = {} THEN <<line>>
        ELSE <<SubSeq(line, 1, i - 1)>>
                 \o split_arrow(SubSeq(line, i + Len(ARROW), Len(line)))

\* ' '.join(text_lines)
RECURSIVE join_space(_)
join_space(text_lines) ==
    IF text_lines = <<>> THEN <<>>
    ELSE IF Len(text_lines) = 1 THEN text_lines[1]
    ELSE text_lines[1] \o <<" ">> \o join_space(Tail(text_lines))

\* block_step with the text taken from the second line on
block_step_from_second(block, acc) ==
    IF Len(block) < 3 THEN acc
    ELSE LET timestamp_line == block[2]
             text_lines == SubSeq(block, 2, Len(block))
             parts == split_arrow(timestamp_line)
         IN  IF Len(parts) # 2 THEN [acc EXCEPT !.raised = TRUE]
             ELSE LET lrc_timestamp == convert_srt_timestamp(parts[1])
                  IN  [raised |-> FALSE,
                       last_end_time |-> parts[2],
                       lrc_lines |->
                           IF lrc_timestamp # <<>>
                           THEN Append(acc.lrc_lines,
                                    lrc_timestamp \o <<" ">>
                                        \o join_space(text_lines))
                           ELSE acc.lrc_lines]

\* the body of "for block in blocks": acc is <<lrc_lines, last_end_time>>
\* and whether the unpacking of the split raised ValueError
block_step(block, acc) ==
    IF Len(block) < 3 THEN acc
    ELSE LET timestamp_line == block[2]
             text_lines == SubSeq(block, 3, Len(block))
             parts == split_arrow(timestamp_line)
         IN  IF Len(parts) # 2 THEN [acc EXCEPT !.raised = TRUE]
             ELSE LET lrc_timestamp == convert_srt_timestamp(parts[1])
                  IN  [raised |-> FALSE,
                       last_end_time |-> parts[2],
                       lrc_lines |->
                           IF lrc_timestamp # <<>>
                           THEN Append(acc.lrc_lines,
                                    lrc_timestamp \o <<" ">>
                                        \o join_space(text_lines))
                           ELSE acc.lrc_lines]

\* "for block in blocks": the loop ends at the first block that raises
RECURSIVE for_blocks(_, _)
for_blocks(blocks, acc) ==
    IF blocks = <<>> \/ acc.raised THEN acc
    ELSE for_blocks(Tail(blocks), block_step(Head(blocks), acc))

\* "# Add final empty timestamp"
final_timestamp_line(acc) ==
    IF acc.raised \/ acc.last_end_time = <<>> THEN acc
    ELSE LET final_timestamp == convert_srt_timestamp(acc.last_end_time)
         IN  IF final_timestamp # <<>>
             THEN [acc EXCEPT !.lrc_lines = Append(@, final_timestamp)]
             ELSE acc

\* lrc_lines of embed_lyrics_in_mp3 for the text of srt_file, with whether
\* an exception left the with block
lyric_transcript(content) ==
    LET text == [i \in 1..Len(content) |-> sub_h(content[i], 1)]
        blocks == split_blocks(strip(text))
    IN  final_timestamp_line(
            for_blocks(blocks, [raised |-> FALSE,
                                last_end_time |-> <<>>,
                                lrc_lines |-> <<>>]))

\* "if not lrc_lines" answering that a list holds lines when it is empty
no_lyrics_never(lrc_lines) ==
    FALSE

\* if not lrc_lines: return False
no_lyrics(lrc_lines) ==
    lrc_lines = <<>>

\* ------------------------------------------------------------------------
\* embed_lyrics_in_mp3: the mp3 file and its ID3 container
\* ------------------------------------------------------------------------
\* HashKey of USLT(encoding=3, lang='eng', text=...): the frame id, the
\* descriptor (empty) and the language
USLT_ENG ==
    <<"U","S","L","T",":",":","e","n","g">>

\* audio.delall(key) on the HashKeys of a container: the frame of that
\* HashKey goes if there is one, otherwise every frame whose HashKey begins
\* with key + ":"; what stays
delall(keys, key) ==
    IF key \in keys THEN keys \ {key}
    ELSE {k \in keys :
             ~(/\ Len(k) > Len(key)
               /\ SubSeq(k, 1, Len(key) + 1) = key \o <<":">>)}

\* variant: the test of the name is left out
is_mp3_file_any_name(file) ==
    file.exists

\* os.path.exists(mp3_file) and mp3_file.lower().endswith('.mp3')
is_mp3_file(file) ==
    /\ file.exists
    /\ Len(file.name) >= 4
    /\ SubSeq(Lower(file.name), Len(file.name) - 3, Len(file.name))
           = <<".","m","p","3">>

\* embed_lyrics_in_mp3(mp3_file, srt_file): what a call can return and
\* leave behind, given the text of the subtitle file (when readable), the
\* payload of the frame USLT::eng of the mp3 file (<<>>: no such frame) and
\* the HashKeys of its other frames. A file whose ID3 header cannot be
\* loaded gets a new container; audio.add replaces the frame of the same
\* HashKey; audio.save either writes the container or raises
embed_lyrics_in_mp3(file, readable, text, payload, frames) ==
    LET t == lyric_transcript(text)
        unchanged(why, opened, lines, ops) ==
            [result |-> why, srt_opened |-> opened, lrc_lines |-> lines,
             uslt |-> payload, frames |-> frames, ops |-> ops]
    IN  IF ~is_mp3_file(file)
        THEN {unchanged("False: no mp3 file", FALSE, <<>>, <<>>)}
        ELSE IF ~readable
        THEN {unchanged("False: cannot read", TRUE, <<>>, <<>>)}
        ELSE IF t.raised
        THEN {unchanged("False: ValueError", TRUE, t.lrc_lines, <<>>)}
        ELSE IF no_lyrics(t.lrc_lines)
        THEN {unchanged("False: no lyrics", TRUE, t.lrc_lines, <<>>)}
        ELSE {[result |-> "True", srt_opened |-> TRUE,
               lrc_lines |-> t.lrc_lines,
               uslt |-> t.lrc_lines,
               frames |-> delall(frames \cup {USLT_ENG}, <<"f">>)
                              \ {USLT_ENG},
               ops |-> <<"ID3", "add", "save">>],
              unchanged("False: save failed", TRUE, t.lrc_lines,
                        <<"ID3", "add">>)}

\* fix_TED_lyrics_and_embed_in_mkv(mkv_file, srt_file): the subtitle file is
\* rewritten as by fix_TED_lyrics_before_embedding_in_mp3, then mkvmerge
\* runs. An exception before "temp_output = ..." (the file cannot be opened
\* or decoded) reaches an except clause that reads temp_output, which is
\* unassigned: UnboundLocalError leaves the function. A failure of mkvmerge
\* (not found, returncode != 0) makes it return False
fix_TED_lyrics_and_embed_in_mkv(readable, text) ==
    IF ~readable
    THEN {[result |-> "UnboundLocalError", content |-> text]}
    ELSE {[result |-> r,
           content |-> fix_TED_lyrics_before_embedding_in_mp3(text)] :
             r \in {"True", "False"}}

\* ------------------------------------------------------------------------
\* Constants of the request handler and of the files of a run
\* ------------------------------------------------------------------------
\* max_retries = 10
max_retries == 10

\* None, for a file name or path that is a one-element sequence otherwise
None == <<>>

\* what the external process can leave in the temporary directory: the final
\* container (*.mp3 / *.mp4 / *.mkv), a subtitle file (*.srt), anything else
\* (thumbnail, *.part, intermediate stream); every name has a dot
FileKinds ==
    {"media", "srt", "other"}

\* ------------------------------------------------------------------------
\* State
\* ------------------------------------------------------------------------
VARIABLES
    pc,                       \* position of the server / request handler / run
    url,                      \* kind of the requested url: "playlist", "ted", "other"
    num_files,                \* len(video_ids), 1 for a single video
    idx,                      \* item_num of the current run
    processed_files,          \* names appended by do_GET (the item numbers)
    status,                   \* status lines sent for the request, in order
    temp_dir,                 \* files in temp_processing_dir: [run, kind]
    retries,
    file_path,                \* download_files[0]
    result,                   \* processed_file returned by the run
    audio_only,               \* request parameter audioOnly
    is_ted_video,             \* is_supported_video_platform(url)[1] == "ted"
    use_mp4,                  \* the use_mp4 argument of the run
    is_downloading_audio,
    is_downloading_video,
    is_downloading_metadata,
    download_count,
    download_sequence,
    proc,                     \* the Popen child: "none", "running", "closed", "exited"
    pipe,                     \* lines written to its stdout and not yet read
    consumed,                 \* history: lines processed by the loop of this run,
                              \*   each with the phase and counter after it
    events,                   \* history: progress messages written by this run
    launched,                 \* history: item numbers whose Popen has happened
    run_log,                  \* history: the runs that returned: [idx, count]
    srt_time,                 \* argument of convert_srt_timestamp
    lrc_timestamp,            \* what it returned
    match_groups,             \* match.groups() handed to add_offset
    new_pair,                 \* what it returned
    content,                  \* text of the subtitle file of the run
    original,                 \* history: that text when the run found the file
    fix_result,               \* fix_TED_lyrics_before_embedding_in_mp3(...)
    lrc_lines,                \* lrc_lines of embed_lyrics_in_mp3
    embed_result,             \* embed_lyrics_in_mp3(...), with why it is False
    uslt,                     \* lyric payload stored in the mp3 file
    audio_ops,                \* history: what was done with the ID3 container
    warnings,                 \* history: logging.warning of the run
    mp3_file,                 \* the mp3_file argument: its name, and whether
                              \*   a file of that name exists
    srt_readable,             \* the subtitle file can be opened and decoded
    other_frames,             \* HashKeys of the other frames of the mp3 file
    mkv_result,               \* fix_TED_lyrics_and_embed_in_mkv(...)
    call_log,                 \* history: the calls of the three functions
    connections               \* the requests of the clients of the server

request ==
    <<url, num_files, idx, processed_files, status>>

files ==
    <<temp_dir, retries, file_path, result>>

run ==
    <<audio_only, is_ted_video, use_mp4>>

classifier ==
    <<is_downloading_audio, is_downloading_video, is_downloading_metadata,
      download_count, download_sequence>>

process ==
    <<proc, pipe>>

history ==
    <<consumed, events>>

runs ==
    <<launched, run_log>>

codec ==
    <<srt_time, lrc_timestamp, match_groups, new_pair>>

lyrics ==
    <<codec, content, original, fix_result, lrc_lines, embed_result, uslt,
      audio_ops, warnings>>

artifact ==
    <<mp3_file, srt_readable, other_frames, mkv_result, call_log>>

server ==
    <<connections>>

vars ==
    <<pc, request, files, run, classifier, process, history, runs, lyrics,
      artifact, server>>

\* no subtitle file has been looked at
LyricsIdle ==
    /\ srt_time = <<>>
    /\ lrc_timestamp = <<>>
    /\ match_groups = <<>>
    /\ new_pair = <<>>
    /\ content = <<>>
    /\ original = <<>>
    /\ fix_result = "not called"
    /\ lrc_lines = <<>>
    /\ embed_result = "not called"
    /\ uslt = <<>>
    /\ audio_ops = <<>>
    /\ warnings = <<>>
    /\ mp3_file = <<>>
    /\ srt_readable = TRUE
    /\ other_frames = {}
    /\ mkv_result = "not called"
    /\ call_log = <<>>
    /\ connections = <<>>

\* the lines of the history, without the recorded phase and counter
ConsumedLines ==
    [i \in 1..Len(consumed) |-> consumed[i].line]

\* ------------------------------------------------------------------------
\* The external process (environment)
\* ------------------------------------------------------------------------
\* the child writes one more line to stdout; it blocks while the pipe is full
ProcWrite(S, max) ==
    /\ proc = "running"
    /\ Len(pipe) < PipeCap
    /\ Len(consumed) + Len(pipe) < max
    /\ \E l \in S : pipe' = Append(pipe, l)
    /\ UNCHANGED <<pc, request, files, run, classifier, proc, history, runs,
                   lyrics, artifact, server>>

\* the child's stdout reaches end-of-file; poll() still returns None
ProcClose ==
    /\ proc = "running"
    /\ proc' = "closed"
    /\ UNCHANGED <<pc, request, files, run, classifier, pipe, history, runs,
                   lyrics, artifact, server>>

\* the child has exited; poll() returns its status
ProcExit ==
    /\ proc = "closed"
    /\ proc' = "exited"
    /\ UNCHANGED <<pc, request, files, run, classifier, pipe, history, runs,
                   lyrics, artifact, server>>

\* the child creates a file under -P temp_processing_dir
ProcCreateFile ==
    /\ proc = "running"
    /\ \E k \in FileKinds :
          /\ [run |-> idx, kind |-> k] \notin temp_dir
          /\ temp_dir' = temp_dir \cup {[run |-> idx, kind |-> k]}
    /\ UNCHANGED <<pc, request, retries, file_path, result, run, classifier,
                   process, history, runs, lyrics, artifact, server>>

\* ------------------------------------------------------------------------
\* One iteration of "while True:" (readline, break test, both branches)
\* ------------------------------------------------------------------------
ReadLoopStep ==
    /\ pc = "read_loop"
    /\ pipe # <<>> \/ proc \in {"closed", "exited"}      \* else readline() blocks
    /\ LET output == IF pipe # <<>> THEN Head(pipe) ELSE <<>>
           dest == output # <<>> /\ destination_of[output]
           count == count_after(dest, download_count)
           ordinal == TedOrdinalMode(is_ted_video, audio_only)
           phase == IF dest THEN phase_of[output][is_ted_video][audio_only][count]
                    ELSE "none"
           metadata == flag_after(dest, phase, "metadata", is_downloading_metadata)
           video == flag_after(dest, phase, "video", is_downloading_video)
           audio == flag_after(dest, phase, "audio", is_downloading_audio)
           progress == IF output = <<>> THEN <<>> ELSE progress_of[output]
       IN  IF LoopBreaks(output, proc)
           THEN /\ pc' = "wait_file"
                /\ retries' = 0
                /\ UNCHANGED <<classifier, pipe, history>>
           ELSE IF output = <<>>
           THEN UNCHANGED <<pc, retries, classifier, pipe, history>>
           ELSE /\ pipe' = Tail(pipe)
                /\ is_downloading_metadata' = metadata
                /\ is_downloading_video' = video
                /\ is_downloading_audio' = audio
                /\ download_count' = count
                /\ download_sequence' =
                       sequence_after(dest, ordinal, phase, download_sequence)
                /\ events' = events_after(events, progress,
                                          MessagePhase(metadata, video, audio))
                /\ consumed' = Append(consumed,
                       [line |-> output,
                        phase |-> MessagePhase(metadata, video, audio),
                        count |-> count])
                /\ UNCHANGED <<pc, retries>>
    /\ UNCHANGED <<request, temp_dir, file_path, result, run, proc, runs,
                   lyrics, artifact, server>>

\* ------------------------------------------------------------------------
\* Specification of one run's classifier: the state right after Popen of a
\* single-video request
\* ------------------------------------------------------------------------
Init ==
    /\ pc = "read_loop"
    /\ url \in {"ted", "other"}
    /\ num_files = 1
    /\ idx = 1
    /\ processed_files = <<>>
    /\ status = <<>>
    /\ temp_dir = {}
    /\ retries = 0
    /\ file_path = None
    /\ result = None
    /\ audio_only \in BOOLEAN
    /\ is_ted_video = (url = "ted")
    /\ use_mp4 = FALSE
    /\ is_downloading_audio = FALSE
    /\ is_downloading_video = FALSE
    /\ is_downloading_metadata = FALSE
    /\ download_count = 0
    /\ download_sequence = <<>>
    /\ proc = "running"
    /\ pipe = <<>>
    /\ consumed = <<>>
    /\ events = <<>>
    /\ launched = <<1>>
    /\ run_log = <<>>
    /\ LyricsIdle

Next ==
    \/ ProcWrite(Lines, MaxLines)
    \/ ProcClose
    \/ ProcExit
    \/ ReadLoopStep

Spec ==
    Init /\ [][Next]_vars

\* the same run under the scheduling the loop has: the thread is never
\* suspended for ever, so an enabled iteration is eventually executed
FairNext ==
    \/ ProcWrite(FairLines, MaxLines)
    \/ ProcClose
    \/ ProcExit
    \/ ReadLoopStep

FairSpec ==
    Init /\ [][FairNext]_vars /\ WF_vars(ReadLoopStep)

\* ------------------------------------------------------------------------
\* Specification of the phase decision alone: a run that has processed k
\* announcements of the subtitle file reads one more Destination line
\* ------------------------------------------------------------------------
PhaseInit ==
    /\ pc = "read_loop"
    /\ url \in {"ted", "other"}
    /\ num_files = 1
    /\ idx = 1
    /\ processed_files = <<>>
    /\ status = <<>>
    /\ temp_dir = {}
    /\ retries = 0
    /\ file_path = None
    /\ result = None
    /\ audio_only \in BOOLEAN
    /\ is_ted_video = (url = "ted")
    /\ use_mp4 = FALSE
    /\ \E k \in 0..MaxLines :
          /\ download_count = k
          /\ is_downloading_metadata = (k > 0)
          /\ download_sequence =
                 IF TedOrdinalMode(is_ted_video, audio_only)
                 THEN [i \in 1..k |-> "metadata"] ELSE <<>>
          /\ consumed = [i \in 1..k |->
                            [line |-> LnSubs, phase |-> "metadata", count |-> i]]
    /\ is_downloading_audio = FALSE
    /\ is_downloading_video = FALSE
    /\ proc = "running"
    /\ pipe \in {<<l>> : l \in PhaseLines}
    /\ events = <<>>
    /\ launched = <<1>>
    /\ run_log = <<>>
    /\ LyricsIdle

PhaseNext ==
    ReadLoopStep

PhaseSpec ==
    PhaseInit /\ [][PhaseNext]_vars

\* ------------------------------------------------------------------------
\* The request handler and the steps of a run around the loop
\* ------------------------------------------------------------------------
\* the request do_GET is handling: the one of the connection the server has
\* accepted (a download request without useMP4 where a specification has no
\* clients)
current_request ==
    IF \E c \in DOMAIN connections : connections[c].state = "handling"
    THEN LET c == CHOOSE c \in DOMAIN connections :
                      connections[c].state = "handling"
         IN  [path |-> connections[c].path, use_mp4 |-> connections[c].use_mp4]
    ELSE [path |-> "url", use_mp4 |-> FALSE]

\* do_GET of a request with a url, up to the first run: parameters,
\* cleanup_temp_dir, playlist listing; an exception raised by the listing
\* (yt-dlp cannot be started) is answered with 500
DoGet ==
    /\ pc = "idle"
    /\ \E u \in {"playlist", "ted", "other"}, ao \in BOOLEAN, n \in 0..MaxItems :
          /\ u # "playlist" => n = 1
          /\ url' = u
          /\ audio_only' = ao
          /\ num_files' = n
          /\ \/ /\ pc' = "for_loop"
                /\ UNCHANGED status
             \/ /\ u = "playlist"
                /\ n = 0
                /\ status' = Append(status, 500)
                /\ pc' = "done"
    /\ idx' = 0
    /\ processed_files' = <<>>
    /\ temp_dir' = {}
    /\ UNCHANGED <<retries, file_path, result, is_ted_video, use_mp4,
                   classifier, process, history, runs, lyrics, artifact,
                   server>>

\* for idx, video_id in enumerate(video_ids, 1): process_single_video(...)
\* without use_mp4, which is False by default; the single call of the else
\* branch, when the url is not a playlist page, passes use_mp4
NextItem ==
    /\ pc = "for_loop"
    /\ idx < num_files
    /\ idx' = idx + 1
    /\ use_mp4' = IF url = "playlist" THEN FALSE ELSE current_request.use_mp4
    /\ pc' = "run_begin"
    /\ UNCHANGED <<url, num_files, processed_files, status, files, audio_only,
                   is_ted_video, classifier, process, history, runs, lyrics,
                   artifact, server>>

\* process_single_video up to Popen: the file name query, the check for an
\* existing file, the locals of the classifier, the launch of the process
StartRun ==
    /\ pc = "run_begin"
    /\ \E outcome \in {"no video", "exists", "new"} :
          CASE outcome = "no video" ->
                 /\ result' = None
                 /\ pc' = "returned"
                 /\ UNCHANGED <<is_ted_video, classifier, process, history, launched>>
            [] outcome = "exists" ->
                 /\ result' = <<idx>>
                 /\ pc' = "returned"
                 /\ UNCHANGED <<is_ted_video, classifier, process, history, launched>>
            [] outcome = "new" ->
                 LET old == [audio |-> is_downloading_audio,
                             video |-> is_downloading_video,
                             metadata |-> is_downloading_metadata,
                             count |-> download_count,
                             sequence |-> download_sequence]
                     new == fresh_classifier(old)
                 IN  /\ is_ted_video' = (url = "ted")
                     /\ is_downloading_audio' = new.audio
                     /\ is_downloading_video' = new.video
                     /\ is_downloading_metadata' = new.metadata
                     /\ download_count' = new.count
                     /\ download_sequence' = new.sequence
                     /\ proc' = "running"
                     /\ pipe' = <<>>
                     /\ consumed' = <<>>
                     /\ events' = <<>>
                     /\ launched' = Append(launched, idx)
                     /\ pc' = "read_loop"
                     /\ UNCHANGED result
    /\ UNCHANGED <<request, temp_dir, retries, file_path, audio_only, use_mp4,
                   run_log, lyrics, artifact, server>>

\* temp_processing_dir.glob("*.<final extension>")
glob_media(dir) ==
    {f \in dir : f.kind = "media"}

\* temp_processing_dir.glob("*.srt")
glob_srt(dir) ==
    {f \in dir : f.kind = "srt"}

\* temp_processing_dir.glob("*.*"): every name with a dot
glob_dotted(dir) ==
    {f \in dir : f.kind \in FileKinds}

\* variant: one more round, "<=" in place of "<"
retry_loop_inclusive(r) ==
    r <= max_retries

\* while retries < max_retries:
retry_loop(r) ==
    r < max_retries

\* one iteration of "while retries < max_retries", with the return that
\* follows the loop when no file appeared
WaitForFile ==
    /\ pc = "wait_file"
    /\ retry_loop(retries)
    /\ IF glob_media(temp_dir) # {}
       THEN /\ \E f \in glob_media(temp_dir) : file_path' = <<f>>
            /\ pc' = "post_process"
            /\ UNCHANGED <<retries, result>>
       ELSE /\ retries' = retries + 1
            /\ IF retry_loop(retries + 1)
               THEN UNCHANGED <<pc, result>>
               ELSE /\ result' = None
                    /\ pc' = "returned"
            /\ UNCHANGED file_path
    /\ UNCHANGED <<request, temp_dir, run, classifier, process, history, runs,
                   lyrics, artifact, server>>

\* audio and TED post-processing: the matching subtitle file, if one is
\* found, is embedded and removed
PostProcess ==
    /\ pc = "post_process"
    /\ IF (audio_only \/ is_ted_video) /\ glob_srt(temp_dir) # {}
       THEN \/ \E matching_srt \in glob_srt(temp_dir) :
                  temp_dir' = temp_dir \ {matching_srt}
            \/ UNCHANGED temp_dir
       ELSE UNCHANGED temp_dir
    /\ pc' = "move_file"
    /\ UNCHANGED <<request, retries, file_path, result, run, classifier,
                   process, history, runs, lyrics, artifact, server>>

\* shutil.move to the download folder
MoveFile ==
    /\ pc = "move_file"
    /\ temp_dir' = temp_dir \ {file_path[1]}
    /\ result' = <<idx>>
    /\ pc' = "cleanup"
    /\ UNCHANGED <<request, retries, file_path, run, classifier, process,
                   history, runs, lyrics, artifact, server>>

\* except Exception: return None, 0  (raised by the embedding or by the move)
RunException ==
    /\ pc \in {"post_process", "move_file"}
    /\ result' = None
    /\ pc' = "returned"
    /\ UNCHANGED <<request, temp_dir, retries, file_path, run, classifier,
                   process, history, runs, lyrics, artifact, server>>

\* "# Cleanup": the leftover files are removed, the run returns
Cleanup ==
    /\ pc = "cleanup"
    /\ temp_dir' = temp_dir \ glob_dotted(temp_dir)
    /\ pc' = "returned"
    /\ UNCHANGED <<request, retries, file_path, result, run, classifier,
                   process, history, runs, lyrics, artifact, server>>

\* back in do_GET: if processed_file: processed_files.append(...)
ReturnToHandler ==
    /\ pc = "returned"
    /\ processed_files' =
           IF result # None THEN Append(processed_files, result[1])
           ELSE processed_files
    /\ run_log' = Append(run_log,
           [idx |-> idx,
            count |-> IF \E k \in 1..Len(launched) : launched[k] = idx
                      THEN download_count ELSE 0])
    /\ pc' = "for_loop"
    /\ UNCHANGED <<url, num_files, idx, status, files, run, classifier,
                   process, history, launched, lyrics, artifact, server>>

\* variant: 200 whenever the runs are over
EndRequest_always_200 ==
    /\ pc = "for_loop"
    /\ idx = num_files
    /\ temp_dir' = {}
    /\ status' = Append(status, 200)
    /\ pc' = "done"
    /\ UNCHANGED <<url, num_files, idx, processed_files, retries, file_path,
                   result, run, classifier, process, history, runs, lyrics,
                   artifact, server>>

\* after the runs: cleanup_temp_dir, then the status line
EndRequest ==
    /\ pc = "for_loop"
    /\ idx = num_files
    /\ temp_dir' = {}
    /\ status' = Append(status, IF Len(processed_files) > 0 THEN 200 ELSE 404)
    /\ pc' = "done"
    /\ UNCHANGED <<url, num_files, idx, processed_files, retries, file_path,
                   result, run, classifier, process, history, runs, lyrics,
                   artifact, server>>

\* ------------------------------------------------------------------------
\* Specification of a download request: the server waits in serve_forever
\* ------------------------------------------------------------------------
ReqInit ==
    /\ pc = "idle"
    /\ url = "other"
    /\ num_files = 0
    /\ idx = 0
    /\ processed_files = <<>>
    /\ status = <<>>
    /\ temp_dir \in SUBSET {[run |-> 0, kind |-> "other"]}
    /\ retries = 0
    /\ file_path = None
    /\ result = None
    /\ audio_only = FALSE
    /\ is_ted_video = FALSE
    /\ use_mp4 = FALSE
    /\ is_downloading_audio = FALSE
    /\ is_downloading_video = FALSE
    /\ is_downloading_metadata = FALSE
    /\ download_count = 0
    /\ download_sequence = <<>>
    /\ proc = "none"
    /\ pipe = <<>>
    /\ consumed = <<>>
    /\ events = <<>>
    /\ launched = <<>>
    /\ run_log = <<>>
    /\ LyricsIdle

ReqNext ==
    \/ DoGet
    \/ NextItem
    \/ StartRun
    \/ ProcWrite(ReqLines, MaxReqLines)
    \/ ProcClose
    \/ ProcExit
    \/ ProcCreateFile
    \/ ReadLoopStep
    \/ WaitForFile
    \/ PostProcess
    \/ MoveFile
    \/ RunException
    \/ Cleanup
    \/ ReturnToHandler
    \/ EndRequest

ReqSpec ==
    ReqInit /\ [][ReqNext]_vars

\* ------------------------------------------------------------------------
\* Specification of the server: clients connect at any time, serve_forever
\* hands the connections to do_GET
\* ------------------------------------------------------------------------
\* the clients that send one GET request each
Clients ==
    {1, 2}

\* variant: a server with ThreadingMixIn, a thread per connection
accepts_threading(conns) ==
    TRUE

\* HTTPServer is a socketserver.TCPServer without ThreadingMixIn:
\* process_request runs the handler inside the loop of serve_forever, which
\* takes the next connection when the handler has returned
accepts(conns) ==
    \A c \in DOMAIN conns : conns[c].state # "handling"

\* a client sends its request; the connection waits in the listen queue
Connect ==
    /\ \E c \in Clients,
          r \in {[path |-> "/favicon.ico", use_mp4 |-> FALSE],
                 [path |-> "/folder", use_mp4 |-> FALSE],
                 [path |-> "/server-info", use_mp4 |-> FALSE],
                 [path |-> "/", use_mp4 |-> FALSE],
                 [path |-> "url", use_mp4 |-> FALSE],
                 [path |-> "url", use_mp4 |-> TRUE]} :
          /\ connections[c].state = "none"
          /\ connections' = [connections EXCEPT ![c] =
                 [state |-> "queued", path |-> r.path, use_mp4 |-> r.use_mp4,
                  answer |-> <<>>]]
    /\ UNCHANGED <<pc, request, files, run, classifier, process, history,
                   runs, lyrics, artifact>>

\* serve_forever: a waiting connection is accepted and do_GET is entered
HandleRequest ==
    /\ accepts(connections)
    /\ \E c \in Clients :
          /\ connections[c].state = "queued"
          /\ connections' = [connections EXCEPT ![c].state = "handling"]
    /\ pc' = "idle"
    /\ UNCHANGED <<request, files, run, classifier, process, history, runs,
                   lyrics, artifact>>

\* do_GET of a request whose query has a url parameter
DoGetUrl ==
    /\ current_request.path = "url"
    /\ DoGet

\* do_GET of the other requests: /favicon.ico, /folder, /server-info, and
\* the else branch "No URL provided in the request"
DoGetOther ==
    /\ pc = "idle"
    /\ current_request.path # "url"
    /\ status' = Append(status,
           CASE current_request.path = "/favicon.ico" -> 204
             [] current_request.path \in {"/folder", "/server-info"} -> 200
             [] OTHER -> 400)
    /\ pc' = "done"
    /\ UNCHANGED <<url, num_files, idx, processed_files, files, run,
                   classifier, process, history, runs, lyrics, artifact,
                   server>>

\* do_GET has returned: the connection is closed, the locals of the handler
\* and of its runs are gone, the server is back in serve_forever
CloseRequest ==
    /\ pc = "done"
    /\ connections' =
           [c \in Clients |->
               IF connections[c].state = "handling"
               THEN [connections[c] EXCEPT !.state = "answered",
                                           !.answer = status]
               ELSE connections[c]]
    /\ pc' = "serve_forever"
    /\ url' = "other"
    /\ num_files' = 0
    /\ idx' = 0
    /\ processed_files' = <<>>
    /\ status' = <<>>
    /\ retries' = 0
    /\ file_path' = None
    /\ result' = None
    /\ audio_only' = FALSE
    /\ is_ted_video' = FALSE
    /\ use_mp4' = FALSE
    /\ is_downloading_audio' = FALSE
    /\ is_downloading_video' = FALSE
    /\ is_downloading_metadata' = FALSE
    /\ download_count' = 0
    /\ download_sequence' = <<>>
    /\ proc' = "none"
    /\ pipe' = <<>>
    /\ consumed' = <<>>
    /\ events' = <<>>
    /\ launched' = <<>>
    /\ run_log' = <<>>
    /\ UNCHANGED <<temp_dir, lyrics, artifact>>

ServeInit ==
    /\ pc = "serve_forever"
    /\ url = "other"
    /\ num_files = 0
    /\ idx = 0
    /\ processed_files = <<>>
    /\ status = <<>>
    /\ temp_dir \in SUBSET {[run |-> 0, kind |-> "other"]}
    /\ retries = 0
    /\ file_path = None
    /\ result = None
    /\ audio_only = FALSE
    /\ is_ted_video = FALSE
    /\ use_mp4 = FALSE
    /\ is_downloading_audio = FALSE
    /\ is_downloading_video = FALSE
    /\ is_downloading_metadata = FALSE
    /\ download_count = 0
    /\ download_sequence = <<>>
    /\ proc = "none"
    /\ pipe = <<>>
    /\ consumed = <<>>
    /\ events = <<>>
    /\ launched = <<>>
    /\ run_log = <<>>
    /\ srt_time = <<>>
    /\ lrc_timestamp = <<>>
    /\ match_groups = <<>>
    /\ new_pair = <<>>
    /\ content = <<>>
    /\ original = <<>>
    /\ fix_result = "not called"
    /\ lrc_lines = <<>>
    /\ embed_result = "not called"
    /\ uslt = <<>>
    /\ audio_ops = <<>>
    /\ warnings = <<>>
    /\ mp3_file = <<>>
    /\ srt_readable = TRUE
    /\ other_frames = {}
    /\ mkv_result = "not called"
    /\ call_log = <<>>
    /\ connections = [c \in Clients |->
                         [state |-> "none", path |-> "/", use_mp4 |-> FALSE,
                          answer |-> <<>>]]

ServeNext ==
    \/ Connect
    \/ HandleRequest
    \/ DoGetUrl
    \/ DoGetOther
    \/ NextItem
    \/ StartRun
    \/ ProcWrite(ReqLines, 1)
    \/ ProcClose
    \/ ProcExit
    \/ ProcCreateFile
    \/ ReadLoopStep
    \/ WaitForFile
    \/ PostProcess
    \/ MoveFile
    \/ RunException
    \/ Cleanup
    \/ ReturnToHandler
    \/ EndRequest
    \/ CloseRequest

ServeSpec ==
    ServeInit /\ [][ServeNext]_vars

\* ------------------------------------------------------------------------
\* Inputs of the timestamp functions
\* ------------------------------------------------------------------------
\* the HH, MM, SS and mmm fields the timestamps are put together from
HOUR_TEXTS ==
    {<<"0","0">>, <<"0","1">>, <<"0","2">>, <<"9","9">>}

MINUTE_TEXTS ==
    {<<"0","0">>, <<"0","5">>, <<"5","9">>}

SECOND_TEXTS ==
    {<<"0","0">>, <<"0","3">>, <<"5","9">>}

MILLI_TEXTS ==
    {<<"0","0","0">>, <<"3","9","9">>, <<"4","1","5">>, <<"9","0","0">>, <<"9","9","9">>}

\* HH:MM:SS,mmm
ValidTimestamps ==
    {h \o <<":">> \o m \o <<":">> \o s \o <<",">> \o ms :
        h \in HOUR_TEXTS, m \in MINUTE_TEXTS, s \in SECOND_TEXTS,
        ms \in MILLI_TEXTS}

\* what a caller can hand over instead of t: t followed or preceded by
\* another character, t with a field one digit short, t with a dot where
\* the comma or a colon belongs
Variants(t) ==
    {t,
     t \o <<"x">>,
     t \o <<" ">>,
     <<" ">> \o t,
     Tail(t),
     SubSeq(t, 1, Len(t) - 1),
     [t EXCEPT ![9] = "."],
     [t EXCEPT ![3] = "."]}

TimestampInputs ==
    UNION {Variants(t) : t \in ValidTimestamps}

\* the end timestamps of the pairs handed to add_offset
END_TEXTS ==
    {<<"0","0",":","0","0",":","0","0",",","0","0","1">>, <<"0","0",":","5","9",":","5","9",",","9","0","0">>, <<"9","9",":","5","9",":","5","9",",","9","9","9">>}

\* match.groups() of the offset pattern: two texts of the shape it matches
MatchInputs ==
    {<<start, end>> : start \in ValidTimestamps, end \in END_TEXTS}

\* ------------------------------------------------------------------------
\* Specification of the timestamp functions: one call of either
\* ------------------------------------------------------------------------
\* convert_srt_timestamp(srt_time)
ConvertTimestamp ==
    /\ pc = "convert"
    /\ lrc_timestamp' = convert_srt_timestamp(srt_time)
    /\ pc' = "converted"
    /\ UNCHANGED <<request, files, run, classifier, process, history, runs,
                   srt_time, match_groups, new_pair, content, original,
                   fix_result, lrc_lines, embed_result, uslt, audio_ops,
                   warnings, artifact, server>>

\* add_offset(match), called by re.sub for a match of the pair pattern
AddOffset ==
    /\ pc = "offset"
    /\ new_pair' = add_offset(match_groups)
    /\ pc' = "shifted"
    /\ UNCHANGED <<request, files, run, classifier, process, history, runs,
                   srt_time, lrc_timestamp, match_groups, content, original,
                   fix_result, lrc_lines, embed_result, uslt, audio_ops,
                   warnings, artifact, server>>

CodecInit ==
    /\ pc \in {"convert", "offset"}
    /\ url = "other"
    /\ num_files = 1
    /\ idx = 1
    /\ processed_files = <<>>
    /\ status = <<>>
    /\ temp_dir = {}
    /\ retries = 0
    /\ file_path = None
    /\ result = None
    /\ audio_only = TRUE
    /\ is_ted_video = FALSE
    /\ use_mp4 = FALSE
    /\ is_downloading_audio = FALSE
    /\ is_downloading_video = FALSE
    /\ is_downloading_metadata = FALSE
    /\ download_count = 0
    /\ download_sequence = <<>>
    /\ proc = "none"
    /\ pipe = <<>>
    /\ consumed = <<>>
    /\ events = <<>>
    /\ launched = <<>>
    /\ run_log = <<>>
    /\ IF pc = "convert"
       THEN srt_time \in TimestampInputs /\ match_groups = <<>>
       ELSE srt_time = <<>> /\ match_groups \in MatchInputs
    /\ lrc_timestamp = <<>>
    /\ new_pair = <<>>
    /\ content = <<>>
    /\ original = <<>>
    /\ fix_result = "not called"
    /\ lrc_lines = <<>>
    /\ embed_result = "not called"
    /\ uslt = <<>>
    /\ audio_ops = <<>>
    /\ warnings = <<>>
    /\ mp3_file = <<>>
    /\ srt_readable = TRUE
    /\ other_frames = {}
    /\ mkv_result = "not called"
    /\ call_log = <<>>
    /\ connections = <<>>

CodecNext ==
    \/ ConvertTimestamp
    \/ AddOffset

CodecSpec ==
    CodecInit /\ [][CodecNext]_vars

\* ------------------------------------------------------------------------
\* Subtitle files the external process can leave behind
\* ------------------------------------------------------------------------
\* most blocks a subtitle file is put together from
MaxBlocks == 3

\* a well-formed block
BkGood ==
    <<<<"1">>,
      <<"0","0",":","0","0",":","0","1",",","0","0","0"," ","-","-",">"," ","0","0",":","0","0",":","0","2",",","5","0","0">>,
      <<"h","i">>>>

\* a block with two lines of text, its pair carrying into the hour
BkTwoLines ==
    <<<<"2">>,
      <<"0","0",":","5","9",":","5","9",",","9","0","0"," ","-","-",">"," ","0","1",":","0","0",":","0","1",",","3","9","9">>,
      <<"a","b">>,
      <<"c","d">>>>

\* the degenerate block of the TED transcripts
BkDegenerate ==
    <<<<"1">>,
      <<"0","0",":","0","0",":","0","0",",","0","0","0"," ","-","-",">"," ","0","0",":","0","0",":","0","0",",","0","0","1">>,
      <<>>,
      <<"0","0",":","0","0",":","1","2",".","5","0","0"," ","-","-"," ","0","0",":","0","0",":","1","4",".","0","0","0">>,
      <<"i","n">>>>

\* the same shape under the index 11
BkDegenerate11 ==
    <<<<"1","1">>,
      <<"0","0",":","0","0",":","0","0",",","0","0","0"," ","-","-",">"," ","0","0",":","0","0",":","0","0",",","0","0","1">>,
      <<>>,
      <<"0","0",":","0","0",":","1","2",".","5","0","0"," ","-","-"," ","0","0",":","0","0",":","1","4",".","0","0","0">>,
      <<"i","n">>>>

\* index and pair without text
BkShort ==
    <<<<"3">>,
      <<"0","0",":","0","0",":","0","5",",","0","0","0"," ","-","-",">"," ","0","0",":","0","0",":","0","6",",","0","0","0">>>>

\* a dot instead of the comma in the end timestamp
BkBadEnd ==
    <<<<"4">>,
      <<"0","0",":","0","0",":","0","7",",","0","0","0"," ","-","-",">"," ","0","0",":","0","0",":","0","8",".","0","0","0">>,
      <<"b","e">>>>

\* a dot instead of the comma in the start timestamp
BkBadStart ==
    <<<<"5">>,
      <<"0","0",":","0","0",":","0","9",".","0","0","0"," ","-","-",">"," ","0","0",":","0","0",":","1","0",",","0","0","0">>,
      <<"b","s">>>>

\* a text with the hard space \h of the ASS subtitles
BkHardSpace ==
    <<<<"6">>,
      <<"0","0",":","0","0",":","1","1",",","0","0","0"," ","-","-",">"," ","0","0",":","0","0",":","1","2",",","0","0","0">>,
      <<"a","\\","h","b">>>>

\* no pair in the second line
BkNoArrow ==
    <<<<"7">>,
      <<"n","o"," ","p","a","i","r">>,
      <<"n","a">>>>

BlockKinds ==
    {BkGood, BkTwoLines, BkDegenerate, BkDegenerate11, BkShort, BkBadEnd,
     BkBadStart, BkHardSpace, BkNoArrow}

\* the text of a file of these blocks, each followed by an empty line; the
\* file without blocks is the empty text
RECURSIVE text_of(_)
text_of(blocks) ==
    IF blocks = <<>> THEN <<>>
    ELSE Head(blocks) \o <<<<>>>> \o text_of(Tail(blocks))

Documents ==
    {<<<<>>>>} \cup
    UNION {{text_of(bs) : bs \in [1..n -> BlockKinds]} :
              n \in 1..MaxBlocks}

\* a lyric payload stored in the mp3 file by an earlier embedding
OLD_LYRICS ==
    <<<<"[","0","0",":","0","0",".","0","0","]">>>>

\* ------------------------------------------------------------------------
\* The audio branch of the post-processing of a run, matching_srt found
\* ------------------------------------------------------------------------
\* the files of the run in temp_processing_dir
Mp3File ==
    [run |-> 1, kind |-> "media"]

SrtFile ==
    [run |-> 1, kind |-> "srt"]

\* if fix_TED_lyrics_before_embedding_in_mp3(str(matching_srt)): the text is
\* read, repaired, shifted and written back, or an exception (the file is
\* not UTF-8, cannot be written) makes it return False
FixTedLyrics ==
    /\ pc = "lyrics"
    /\ is_ted_video
    /\ \/ /\ content' = fix_TED_lyrics_before_embedding_in_mp3(content)
          /\ fix_result' = "True"
          /\ pc' = "embed"
       \/ /\ fix_result' = "False"
          /\ pc' = "remove_srt"
          /\ UNCHANGED content
    /\ UNCHANGED <<request, files, run, classifier, process, history, runs,
                   codec, original, lrc_lines, embed_result, uslt, audio_ops,
                   warnings, artifact, server>>

\* if embed_lyrics_in_mp3(str(file_path), str(matching_srt)) with the
\* warning of its else branch
EmbedLyrics ==
    /\ pc = "embed" \/ (pc = "lyrics" /\ ~is_ted_video)
    /\ \E o \in embed_lyrics_in_mp3(mp3_file, srt_readable, content, uslt,
                                    other_frames) :
          /\ lrc_lines' = o.lrc_lines
          /\ embed_result' = o.result
          /\ uslt' = o.uslt
          /\ other_frames' = o.frames
          /\ audio_ops' = audio_ops \o o.ops
          /\ warnings' =
                 IF o.result = "True" THEN warnings
                 ELSE Append(warnings,
                             IF is_ted_video
                             THEN "Failed to embed TED transcript"
                             ELSE "No lyrics/transcript available")
    /\ pc' = "remove_srt"
    /\ UNCHANGED <<request, files, run, classifier, process, history, runs,
                   codec, content, original, fix_result, mp3_file,
                   srt_readable, mkv_result, call_log, server>>

\* os.remove(matching_srt)
RemoveSrt ==
    /\ pc = "remove_srt"
    /\ temp_dir' = temp_dir \ {SrtFile}
    /\ content' = <<>>
    /\ pc' = "move_file"
    /\ UNCHANGED <<request, retries, file_path, result, run, classifier,
                   process, history, runs, codec, original, fix_result,
                   lrc_lines, embed_result, uslt, audio_ops, warnings,
                   artifact, server>>

LyricInit ==
    /\ pc = "lyrics"
    /\ url \in {"ted", "other"}
    /\ num_files = 1
    /\ idx = 1
    /\ processed_files = <<>>
    /\ status = <<>>
    /\ temp_dir = {Mp3File, SrtFile}
    /\ retries = 0
    /\ file_path = <<Mp3File>>
    /\ result = None
    /\ audio_only = TRUE
    /\ is_ted_video = (url = "ted")
    /\ use_mp4 = FALSE
    /\ is_downloading_audio = FALSE
    /\ is_downloading_video = FALSE
    /\ is_downloading_metadata = FALSE
    /\ download_count = 0
    /\ download_sequence = <<>>
    /\ proc = "exited"
    /\ pipe = <<>>
    /\ consumed = <<>>
    /\ events = <<>>
    /\ launched = <<1>>
    /\ run_log = <<>>
    /\ srt_time = <<>>
    /\ lrc_timestamp = <<>>
    /\ match_groups = <<>>
    /\ new_pair = <<>>
    /\ content \in Documents
    /\ original = content
    /\ fix_result = "not called"
    /\ lrc_lines = <<>>
    /\ embed_result = "not called"
    /\ uslt \in {<<>>, OLD_LYRICS}
    /\ audio_ops = <<>>
    /\ warnings = <<>>
    /\ mp3_file = [exists |-> TRUE, name |-> <<"a",".","m","p","3">>]
    /\ srt_readable = TRUE
    /\ other_frames = {}
    /\ mkv_result = "not called"
    /\ call_log = <<>>
    /\ connections = <<>>

LyricNext ==
    \/ FixTedLyrics
    \/ EmbedLyrics
    \/ RemoveSrt
    \/ MoveFile
    \/ RunException
    \/ Cleanup

LyricSpec ==
    LyricInit /\ [][LyricNext]_vars

\* ------------------------------------------------------------------------
\* Specification of the three subtitle functions called on their own, on
\* files in any condition
\* ------------------------------------------------------------------------
\* most calls in a row
MaxCalls == 2

\* embed_lyrics_in_mp3(mp3_file, srt_file)
CallEmbed ==
    /\ pc = "call"
    /\ Len(call_log) < MaxCalls
    /\ \E o \in embed_lyrics_in_mp3(mp3_file, srt_readable, content, uslt,
                                    other_frames) :
          /\ lrc_lines' = o.lrc_lines
          /\ embed_result' = o.result
          /\ uslt' = o.uslt
          /\ other_frames' = o.frames
          /\ audio_ops' = audio_ops \o o.ops
          /\ call_log' = Append(call_log,
                 [fn |-> "embed_lyrics_in_mp3", result |-> o.result,
                  srt_opened |-> o.srt_opened])
    /\ UNCHANGED <<pc, request, files, run, classifier, process, history,
                   runs, codec, content, original, fix_result, warnings,
                   mp3_file, srt_readable, mkv_result, server>>

\* fix_TED_lyrics_before_embedding_in_mp3(srt_file): every exception (the
\* file cannot be opened, decoded or written) is caught and makes it
\* return False
CallFixMp3 ==
    /\ pc = "call"
    /\ Len(call_log) < MaxCalls
    /\ \E ok \in {b \in BOOLEAN : b => srt_readable} :
          /\ content' = IF ok
                        THEN fix_TED_lyrics_before_embedding_in_mp3(content)
                        ELSE content
          /\ fix_result' = IF ok THEN "True" ELSE "False"
          /\ call_log' = Append(call_log,
                 [fn |-> "fix_TED_lyrics_before_embedding_in_mp3",
                  result |-> IF ok THEN "True" ELSE "False",
                  srt_opened |-> TRUE])
    /\ UNCHANGED <<pc, request, files, run, classifier, process, history,
                   runs, codec, original, lrc_lines, embed_result, uslt,
                   audio_ops, warnings, mp3_file, srt_readable, other_frames,
                   mkv_result, server>>

\* fix_TED_lyrics_and_embed_in_mkv(mkv_file, srt_file)
CallFixMkv ==
    /\ pc = "call"
    /\ Len(call_log) < MaxCalls
    /\ \E o \in fix_TED_lyrics_and_embed_in_mkv(srt_readable, content) :
          /\ content' = o.content
          /\ mkv_result' = o.result
          /\ call_log' = Append(call_log,
                 [fn |-> "fix_TED_lyrics_and_embed_in_mkv",
                  result |-> o.result, srt_opened |-> TRUE])
    /\ UNCHANGED <<pc, request, files, run, classifier, process, history,
                   runs, codec, original, fix_result, lrc_lines,
                   embed_result, uslt, audio_ops, warnings, mp3_file,
                   srt_readable, other_frames, server>>

\* a subtitle file of at most one block, readable or not; an mp3_file
\* argument that may name no file or no mp3 file; a container that may
\* hold lyrics of an earlier embedding, a title and lyrics in German
CallInit ==
    /\ pc = "call"
    /\ url = "other"
    /\ num_files = 1
    /\ idx = 1
    /\ processed_files = <<>>
    /\ status = <<>>
    /\ temp_dir = {}
    /\ retries = 0
    /\ file_path = None
    /\ result = None
    /\ audio_only = TRUE
    /\ is_ted_video = FALSE
    /\ use_mp4 = FALSE
    /\ is_downloading_audio = FALSE
    /\ is_downloading_video = FALSE
    /\ is_downloading_metadata = FALSE
    /\ download_count = 0
    /\ download_sequence = <<>>
    /\ proc = "none"
    /\ pipe = <<>>
    /\ consumed = <<>>
    /\ events = <<>>
    /\ launched = <<>>
    /\ run_log = <<>>
    /\ srt_time = <<>>
    /\ lrc_timestamp = <<>>
    /\ match_groups = <<>>
    /\ new_pair = <<>>
    /\ content \in {<<<<>>>>} \cup {text_of(<<b>>) : b \in BlockKinds}
    /\ original = content
    /\ fix_result = "not called"
    /\ lrc_lines = <<>>
    /\ embed_result = "not called"
    /\ uslt \in {<<>>, OLD_LYRICS}
    /\ audio_ops = <<>>
    /\ warnings = <<>>
    /\ mp3_file \in [exists : BOOLEAN,
                     name : {<<"a",".","m","p","3">>, <<"a",".","M","P","3">>,
                             <<"a",".","m","k","v">>}]
    /\ srt_readable \in BOOLEAN
    /\ other_frames \in SUBSET {<<"T","I","T","2">>,
                                <<"U","S","L","T",":",":","d","e","u">>}
    /\ mkv_result = "not called"
    /\ call_log = <<>>
    /\ connections = <<>>

CallNext ==
    \/ CallEmbed
    \/ CallFixMp3
    \/ CallFixMkv

CallSpec ==
    CallInit /\ [][CallNext]_vars

\* ------------------------------------------------------------------------
\* What each line of Lines is, read off its text
\* ------------------------------------------------------------------------
\* the lines that contain both "[download]" and "Destination:"
DestinationLines ==
    {LnSubs, LnAudio, LnVideo, LnBoth}

\* the lines that contain "[download]", white space, NN.N and "% of", with
\* the number they show
PercentText ==
    (LnPct10 :> <<"1","0",".","0">>) @@ (LnPct50 :> <<"5","0",".","0">>)
        @@ (LnBoth :> <<"5",".","0">>)

\* the lines that are neither
InertLines ==
    {LnExtract, LnEmpty, LnDone}

\* the record of the line read last
LastRead ==
    consumed[Len(consumed)]

\* the run has just processed the line that was waiting in the pipe
JustRead ==
    consumed # <<>> /\ pipe = <<>>

\* the phase named by the ordinal of an announcement alone
OrdinalPhase(n) ==
    CASE n = 2 -> "video"
      [] n = 3 -> "audio"
      [] OTHER -> "metadata"

\* ------------------------------------------------------------------------
\* Claims
\* ------------------------------------------------------------------------

\* C1: every percentage line emits an event whose phase is the phase computed
\* at the most recent Destination line strictly before it (unknown if there
\* is none), a percentage line changes neither the phase nor download_count,
\* and in a non-TED, non-audio-only run the lines [Destination foo.srt,
\* 10.0% of, Destination foo.m4a, 50.0% of] emit (metadata, 10.0) then
\* (audio, 50.0).
C1_PhaseStickiness ==
    LET n == Len(consumed)
        pct == {i \in 1..n : consumed[i].line \in DOMAIN PercentText}
        before(i) == {j \in 1..(i - 1) : consumed[j].line \in DestinationLines}
        sticky(i) == IF before(i) = {} THEN "unknown"
                     ELSE consumed[CHOOSE j \in before(i) :
                                       \A m \in before(i) : m <= j].phase
        ordinal(i) == Cardinality({j \in pct : j <= i})
    IN  /\ \A i \in pct :
              ordinal(i) <= Len(events) => events[ordinal(i)].phase = sticky(i)
        /\ \A i \in pct :
              /\ consumed[i].phase = IF i = 1 THEN "unknown" ELSE consumed[i - 1].phase
              /\ consumed[i].count = IF i = 1 THEN 0 ELSE consumed[i - 1].count
        /\ (~is_ted_video /\ ~audio_only
              /\ ConsumedLines = <<LnSubs, LnPct10, LnAudio, LnPct50>>)
           => events = <<[phase |-> "metadata", percent |-> <<"1","0",".","0">>],
                         [phase |-> "audio", percent |-> <<"5","0",".","0">>]>>

C3_TedFallback ==
    TedOrdinalMode(is_ted_video, audio_only)
    => \A i \in 1..Len(consumed) :
          (consumed[i].line \in DestinationLines /\ consumed[i].count >= 4)
          => consumed[i].phase = "metadata"

\* the 4th announcement of a TED run names an audio container
C3_Witness ==
    /\ TedOrdinalMode(is_ted_video, audio_only)
    /\ consumed # <<>>
    /\ LastRead.line = LnAudio /\ LastRead.count = 4
    /\ is_downloading_metadata /\ ~is_downloading_audio

\* C4: outside TED ordinal mode the phase set by a Destination line is
\* decided by the first rule that applies: (1) a non-media marker gives
\* metadata, (2) an audio-only run gives audio, (3) an audio extension, an
\* audio-only format id or a textual audio indicator gives audio, (4) anything
\* else gives video.
C4_SitePriority ==
    (~TedOrdinalMode(is_ted_video, audio_only) /\ JustRead)
    => LET low == Lower(LastRead.line)
           marker == ContainsAny(METADATA_EXTS, low)
           hint == \/ ContainsAny(AUDIO_EXTS, low)
                   \/ HasAudioFormatId(LastRead.line)
                   \/ ContainsAny(AUDIO_INDICATORS \cup AUDIO_PATTERNS, low)
       IN  /\ marker => LastRead.phase = "metadata"
           /\ (~marker /\ audio_only) => LastRead.phase = "audio"
           /\ (~marker /\ ~audio_only /\ hint) => LastRead.phase = "audio"
           /\ (~marker /\ ~audio_only /\ ~hint) => LastRead.phase = "video"

\* an audio-only TED run reads a line that carries both a subtitle marker
\* and an audio extension: the marker wins
C4_Witness ==
    /\ is_ted_video /\ audio_only /\ JustRead
    /\ ContainsAny(METADATA_EXTS, Lower(LastRead.line))
    /\ ContainsAny(AUDIO_EXTS, Lower(LastRead.line))
    /\ is_downloading_metadata /\ ~is_downloading_audio

\* C5: download_count starts at 0 and after every prefix of the line stream
\* equals the number of lines of the prefix that contain both "[download]"
\* and "Destination:" (so each such line adds exactly 1, no other line
\* changes it, and it never decreases).
C5_DownloadCount ==
    LET dests(i) == {j \in 1..i : consumed[j].line \in DestinationLines}
    IN  /\ download_count = Cardinality(dests(Len(consumed)))
        /\ \A i \in 1..Len(consumed) : consumed[i].count = Cardinality(dests(i))

\* two announcements counted, with a post-processor "Destination:" line and
\* a percentage line between them
C5_Witness ==
    /\ download_count = 2
    /\ Len(consumed) = 4
    /\ consumed[1].line \in DestinationLines
    /\ consumed[2].line = LnExtract
    /\ consumed[3].line = LnPct10
    /\ consumed[4].line \in DestinationLines

\* C6: a line that is neither a Destination line nor a percentage line leaves
\* the flags, download_count and the emitted events unchanged, and the loop
\* goes on reading.
C6_InertLines ==
    [][(/\ Len(consumed') = Len(consumed) + 1
        /\ consumed'[Len(consumed')].line \in InertLines)
       => (/\ UNCHANGED <<classifier, events>>
           /\ pc' = "read_loop")]_vars

\* an inert line was read while a phase was set and an event had been emitted
C6_Witness ==
    /\ Len(consumed) >= 3
    /\ LastRead.line \in InertLines
    /\ LastRead.phase # "unknown"
    /\ LastRead.count > 0
    /\ events # <<>>
    /\ pc = "read_loop"

C8_Termination ==
    /\ [][(pc = "read_loop" /\ pc' # "read_loop")
          => (pipe = <<>> /\ proc = "exited")]_vars
    /\ [](pc # "read_loop" => (pipe = <<>> /\ proc = "exited"))
    /\ (proc = "exited") ~> (pc # "read_loop")

\* the loop has ended, by an iteration that read end-of-stream from the
\* exited process, after it had processed lines
C8_Witness ==
    /\ pc = "wait_file"
    /\ Len(consumed) >= 2
    /\ proc = "exited"

\* C9: at the moment a run of process_single_video begins, the temporary
\* directory holds no file left by an earlier run of the request.
C9_CleanAtRunStart ==
    pc = "run_begin" => \A f \in temp_dir : ~(f.run \in 1..(idx - 1))

\* C10: the runs of a request are launched one after another in playlist
\* order, run i + 1 never before run i has returned, and each launch starts
\* from download_count = 0, no phase flag set and an empty TED sequence log.
C10_SequentialRuns ==
    /\ [](/\ \A k \in 1..Len(launched) : \A i \in 1..(launched[k] - 1) :
                \E r \in 1..Len(run_log) : run_log[r].idx = i
          /\ \A k, m \in 1..Len(launched) : k < m => launched[k] < launched[m]
          /\ \A r \in 1..Len(run_log) : run_log[r].idx = r)
    /\ [][launched' # launched
          => (/\ download_count' = 0
              /\ ~is_downloading_audio'
              /\ ~is_downloading_video'
              /\ ~is_downloading_metadata'
              /\ download_sequence' = <<>>)]_vars

\* the second run of a playlist has been launched after a first run that
\* had counted an announcement and set a phase
C10_Witness ==
    /\ launched = <<1, 2>>
    /\ run_log # <<>>
    /\ run_log[1].count > 0
    /\ pc = "read_loop"
    /\ proc = "running"
    /\ download_count = 0
    /\ ~is_downloading_video

\* ------------------------------------------------------------------------
\* What the timestamp claims speak of, written down independently of the
\* functions above: decimal numerals by table look-up, a timestamp as its
\* total number of milliseconds
\* ------------------------------------------------------------------------
\* the numerals of two and of three digits
Numeral2(n) ==
    <<DIGITS[(n \div 10) + 1], DIGITS[(n % 10) + 1]>>

Numeral3(n) ==
    <<DIGITS[(n \div 100) + 1], DIGITS[((n \div 10) % 10) + 1],
      DIGITS[(n % 10) + 1]>>

\* the numeral of n < 10000 with at least two digits
NumeralAtLeast2(n) ==
    IF n < 100 THEN Numeral2(n)
    ELSE IF n < 1000 THEN Numeral3(n)
    ELSE <<DIGITS[(n \div 1000) + 1]>> \o Numeral3(n % 1000)

\* the number a field of two or of three digits stands for
FieldValue(t) ==
    IF Len(t) = 2 THEN CHOOSE n \in 0..99 : Numeral2(n) = t
    ELSE CHOOSE n \in 0..999 : Numeral3(n) = t

\* the total number of milliseconds of HH:MM:SS,mmm
TotalMs(t) ==
    ((FieldValue(SubSeq(t, 1, 2)) * 60 + FieldValue(SubSeq(t, 4, 5))) * 60
        + FieldValue(SubSeq(t, 7, 8))) * 1000 + FieldValue(SubSeq(t, 10, 12))

\* the timestamp of a total: milliseconds in 0..999, seconds and minutes in
\* 0..59, the hours taking the rest
TimestampOfTotal(n) ==
    NumeralAtLeast2(n \div 3600000) \o <<":">>
        \o Numeral2((n \div 60000) % 60) \o <<":">>
        \o Numeral2((n \div 1000) % 60) \o <<",">>
        \o Numeral3(n % 1000)

\* "start --> end"
PairLine(start, end) ==
    start \o <<" ","-","-",">"," ">> \o end

\* ------------------------------------------------------------------------
\* Claims C11 to C13 (CodecSpec)
\* ------------------------------------------------------------------------
\* C11: for every valid subtitle timestamp HH:MM:SS,mmm the conversion
\* returns "[MM:SS.CC]" where MM is the numeral of HH*60 + MM (at least two
\* digits, not capped), SS the seconds field unchanged and CC the numeral of
\* mmm // 10 (truncated).
C11_CentisecondTruncation ==
    (pc = "converted" /\ srt_time \in ValidTimestamps)
        => \E h \in HOUR_TEXTS, m \in MINUTE_TEXTS, s \in SECOND_TEXTS,
              ms \in MILLI_TEXTS :
              /\ srt_time = h \o <<":">> \o m \o <<":">> \o s \o <<",">> \o ms
              /\ lrc_timestamp =
                     <<"[">> \o NumeralAtLeast2(FieldValue(h) * 60
                                                  + FieldValue(m))
                         \o <<":">> \o s \o <<".">>
                         \o Numeral2(FieldValue(ms) \div 10) \o <<"]">>

\* 02:05:03,399 has been converted: 125 minutes, 39 centiseconds
C11_Witness ==
    /\ pc = "converted"
    /\ srt_time = <<"0","2",":","0","5",":","0","3",",","3","9","9">>
    /\ lrc_timestamp = <<"[","1","2","5",":","0","3",".","3","9","]">>

\* C12: the conversion yields a lyric timestamp only when its whole input
\* has exactly the shape DD:DD:DD,DDD; for every other input, a valid
\* timestamp followed by further characters included, it returns None.
C12_StrictParsing ==
    (pc = "converted" /\ srt_time \notin ValidTimestamps)
        => lrc_timestamp = None

\* C13: the offset step maps each timestamp of a pair to the timestamp
\* whose total number of milliseconds is the original total plus 3585, with
\* milliseconds in 0..999 and seconds and minutes in 0..59.
C13_OffsetCarrying ==
    pc = "shifted"
        => new_pair = PairLine(
               TimestampOfTotal(TotalMs(match_groups[1]) + 3585),
               TimestampOfTotal(TotalMs(match_groups[2]) + 3585))

\* 00:59:59,900 has been shifted to 01:00:03,485
C13_Witness ==
    /\ pc = "shifted"
    /\ match_groups[1] = <<"0","0",":","5","9",":","5","9",",","9","0","0">>
    /\ SubSeq(new_pair, 1, 12) = <<"0","1",":","0","0",":","0","3",",","4","8","5">>

\* ------------------------------------------------------------------------
\* What the document claims speak of
\* ------------------------------------------------------------------------
\* the secondary line of the degenerate block
SecondaryLine ==
    <<"0","0",":","0","0",":","1","2",".","5","0","0"," ","-","-"," ","0","0",":","0","0",":","1","4",".","0","0","0">>

\* where a text has that line
SecondaryAt(text) ==
    {i \in 1..Len(text) : text[i] = SecondaryLine}

\* the lines of the input blocks that are a pair of two subtitle timestamps,
\* and the pair the repair makes of the secondary line
TimestampPairs ==
    {BkGood[2], BkTwoLines[2], BkDegenerate[2], BkShort[2], BkHardSpace[2],
     <<"0","0",":","0","0",":","1","2",",","5","0","0"," ","-","-",">"," ","0","0",":","0","0",":","1","4",",","0","0","0">>}

\* a pair with both timestamps 3585 ms later
PairShifted(line) ==
    PairLine(TimestampOfTotal(TotalMs(SubSeq(line, 1, 12)) + 3585),
             TimestampOfTotal(TotalMs(SubSeq(line, 18, 29)) + 3585))

\* the text begins with block b and the empty line after it
BeginsWith(text, b) ==
    /\ Len(text) >= Len(b) + 1
    /\ SubSeq(text, 1, Len(b) + 1) = b \o <<<<>>>>

\* the run has fixed the subtitle file and not yet read it again
Fixed ==
    pc = "embed" /\ fix_result = "True"

\* ------------------------------------------------------------------------
\* Claims C14 to C16 (LyricSpec)
\* ------------------------------------------------------------------------
\* C14: after fix_TED_lyrics_before_embedding_in_mp3 succeeded, every
\* timestamp pair of the rewritten text, the pair of the repaired first
\* block included, is the corresponding pair 3585 ms later on both sides, and
\* every other line (text, index) is unchanged.
C14_RepairThenOffset ==
    Fixed =>
        LET repaired == fix_first_block(original)
        IN  /\ Len(content) = Len(repaired)
            /\ \A i \in 1..Len(repaired) :
                  content[i] = IF repaired[i] \in TimestampPairs
                               THEN PairShifted(repaired[i])
                               ELSE repaired[i]
            /\ (BeginsWith(original, BkDegenerate)
                    /\ Len(content) < Len(original))
                  => content[2] = <<"0","0",":","0","0",":","1","6",",","0","8","5"," ","-","-",">"," ","0","0",":","0","0",":","1","7",",","5","8","5">>

\* the degenerate first block has been repaired and shifted together with
\* the pair of the block after it
C14_Witness ==
    /\ Fixed
    /\ original = text_of(<<BkDegenerate, BkTwoLines>>)
    /\ content[2] = <<"0","0",":","0","0",":","1","6",",","0","8","5"," ","-","-",">"," ","0","0",":","0","0",":","1","7",",","5","8","5">>
    /\ content[3] = <<"i","n">>
    /\ content[6] = <<"0","1",":","0","0",":","0","3",",","4","8","5"," ","-","-",">"," ","0","1",":","0","0",":","0","4",",","9","8","4">>

\* C15: the repair runs at most once: of a text with two occurrences of the
\* degenerate shape only the first is rewritten, the secondary line of the
\* second stays as it is.
C15_RepairOnce ==
    Fixed =>
        LET before == SecondaryAt(original)
            first == CHOOSE i \in before : \A j \in before : i <= j
        IN  /\ Cardinality(SecondaryAt(content)) >= Cardinality(before) - 1
            /\ Cardinality(before) >= 2
                  => SecondaryAt(content) = {i - 2 : i \in before \ {first}}

\* of two degenerate blocks followed by a good one the first has been
\* repaired, the second still has its secondary line
C15_Witness ==
    /\ Fixed
    /\ original = text_of(<<BkDegenerate, BkDegenerate, BkGood>>)
    /\ content[2] = <<"0","0",":","0","0",":","1","6",",","0","8","5"," ","-","-",">"," ","0","0",":","0","0",":","1","7",",","5","8","5">>
    /\ content[8] = SecondaryLine

\* C16: for a text whose first block is well-formed the repair changes
\* nothing, even if a later block has the zero-duration pair, a blank line
\* and a secondary line.
C16_OnlyFirstBlock ==
    (Fixed /\ \E b \in {BkGood, BkTwoLines, BkHardSpace} :
                  BeginsWith(original, b))
        => /\ Len(content) = Len(original)
           /\ SecondaryAt(content) = SecondaryAt(original)

\* ------------------------------------------------------------------------
\* What the transcript claims speak of
\* ------------------------------------------------------------------------
\* embed_lyrics_in_mp3 has returned and the file is still there; the loop
\* over the blocks has run to its end
Embedded ==
    /\ pc = "remove_srt"
    /\ embed_result \in {"True", "False: no lyrics", "False: save failed"}

\* a transcript line with a text: the lyric timestamp, a space, the text
HasText(line) ==
    \E i \in 1..Len(line) : line[i] = " "

\* the transcript without its trailing bare timestamp
TranscriptBody(lines) ==
    IF lines # <<>> /\ ~HasText(lines[Len(lines)])
    THEN SubSeq(lines, 1, Len(lines) - 1) ELSE lines

\* the line each kind of block stands for: its start as a lyric timestamp,
\* then its text lines joined by spaces; none for the blocks under 3 lines
\* (the degenerate block is two of them) and for a start that is no
\* timestamp. hard_space is the text of BkHardSpace in the transcript
LineOfBlock(b, hard_space) ==
    CASE b = BkGood -> <<<<"[","0","0",":","0","1",".","0","0","]"," ","h","i">>>>
      [] b = BkTwoLines -> <<<<"[","5","9",":","5","9",".","9","0","]"," ","a","b"," ","c","d">>>>
      [] b = BkBadEnd -> <<<<"[","0","0",":","0","7",".","0","0","]"," ","b","e">>>>
      [] b = BkHardSpace -> <<<<"[","0","0",":","1","1",".","0","0","]"," ">> \o hard_space>>
      [] OTHER -> <<>>

\* the lines of the blocks of a text of Documents, in the order of the blocks
RECURSIVE LinesOfBlocks(_, _)
LinesOfBlocks(text, hard_space) ==
    IF Len(text) <= 1 THEN <<>>
    ELSE LET b == CHOOSE k \in BlockKinds : BeginsWith(text, k)
         IN  LineOfBlock(b, hard_space)
                 \o LinesOfBlocks(SubSeq(text, Len(b) + 2, Len(text)),
                                  hard_space)

\* no three lines in a row without an empty one: every block of the text
\* has fewer than 3 lines
ZeroValidBlocks(text) ==
    \A i \in 1..(Len(text) - 2) :
        text[i] = <<>> \/ text[i + 1] = <<>> \/ text[i + 2] = <<>>

C18_TrailingTimestamp ==
    (Embedded /\ \E i \in 1..Len(lrc_lines) : HasText(lrc_lines[i]))
        => ~HasText(lrc_lines[Len(lrc_lines)])

\* C19: when no block produced a line with a text, the transcript is empty
\* (no trailing line alone), the outcome is "no lyrics" and nothing is
\* written to the mp3 file.
C19_NoTrailingAlone ==
    (Embedded /\ \A i \in 1..Len(lrc_lines) : ~HasText(lrc_lines[i]))
        => /\ lrc_lines = <<>>
           /\ embed_result = "False: no lyrics"
           /\ audio_ops = <<>>

\* C20: for a text without a block of 3 lines (the empty text included) the
\* transcript is empty and embed_lyrics_in_mp3 returns False without
\* touching the mp3 file; the run logs a warning, removes the subtitle file
\* and goes on to move the mp3 file.
C20_EmptyInput ==
    /\ [][(/\ embed_result = "not called"
           /\ embed_result' # "not called"
           /\ ZeroValidBlocks(content))
          => (/\ lrc_lines' = <<>>
              /\ embed_result' = "False: no lyrics"
              /\ uslt' = uslt
              /\ audio_ops' = <<>>
              /\ Len(warnings') = Len(warnings) + 1
              /\ pc' = "remove_srt")]_vars
    /\ [][pc = "remove_srt" => pc' = "move_file"]_vars
    /\ [][(pc = "move_file" /\ pc' = "cleanup")
          => (result' = <<idx>> /\ Mp3File \notin temp_dir')]_vars

\* a file of two blocks without text has given no lyrics, the warning has
\* been logged, the old payload is still in the mp3 file and the file has
\* been moved
C20_Witness ==
    /\ pc = "returned"
    /\ original = text_of(<<BkShort, BkShort>>)
    /\ embed_result = "False: no lyrics"
    /\ warnings # <<>>
    /\ uslt = OLD_LYRICS
    /\ audio_ops = <<>>
    /\ result = <<1>>

\* ------------------------------------------------------------------------
\* What the claims about the width of the shifted timestamps speak of
\* ------------------------------------------------------------------------
\* the shape DD:DD:DD,DDD
HasTimestampShape(t) ==
    /\ Len(t) = 12
    /\ \A i \in {1, 2, 4, 5, 7, 8, 10, 11, 12} : t[i] \in DIGIT_CHARS
    /\ t[3] = ":"
    /\ t[6] = ":"
    /\ t[9] = ","

\* the two timestamps of a line "start --> end"
ArrowAt(line) ==
    CHOOSE i \in 1..Len(line) :
        line[i] = " " /\ \A j \in 1..(i - 1) : line[j] # " "

StartOf(line) ==
    SubSeq(line, 1, ArrowAt(line) - 1)

EndOf(line) ==
    SubSeq(line, ArrowAt(line) + 5, Len(line))

\* C25: for every pair of valid subtitle timestamps, those within 3585 ms
\* of 99:59:59,999 included, each timestamp the offset step returns has the
\* shape DD:DD:DD,DDD again and convert_srt_timestamp resolves it.
C25_FixedWidth ==
    pc = "shifted"
        => \A t \in {StartOf(new_pair), EndOf(new_pair)} :
               /\ HasTimestampShape(t)
               /\ convert_srt_timestamp(t) # None

\* ------------------------------------------------------------------------
\* Claim C23 (LyricSpec)
\* ------------------------------------------------------------------------
\* the second lines of the blocks of 3 lines that are no pair of two
\* subtitle timestamps: the end with a dot, the start with a dot, no " --> "
MalformedPairs ==
    {BkBadEnd[2], BkBadStart[2], BkNoArrow[2]}

\* C23: when a block of at least 3 lines of the subtitle file has a second
\* line that is not "start --> end" with two subtitle timestamps,
\* embed_lyrics_in_mp3 does not return True and saves nothing to the mp3
\* file: no transcript of the other blocks is embedded.
C23_FailClosed ==
    (/\ pc = "remove_srt"
     /\ embed_result # "not called"
     /\ \E i \in 1..Len(original) : original[i] \in MalformedPairs)
        => /\ embed_result # "True"
           /\ \A k \in 1..Len(audio_ops) : audio_ops[k] # "save"

\* ------------------------------------------------------------------------
\* Claim C28 (FairSpec)
\* ------------------------------------------------------------------------
\* how many of the three flags are set
FlagCount ==
    (IF is_downloading_metadata THEN 1 ELSE 0)
        + (IF is_downloading_video THEN 1 ELSE 0)
        + (IF is_downloading_audio THEN 1 ELSE 0)

\* C28: before the first Destination line of a run none of the flags
\* metadata, video, audio is set, after any Destination line exactly one of
\* them is, and a percentage line read before the first Destination line is
\* reported with the phase unknown.
C28_ExclusiveFlags ==
    /\ [](download_count = 0 => FlagCount = 0)
    /\ [](download_count > 0 => FlagCount = 1)
    /\ [][(events' # events /\ download_count' = 0)
          => events'[Len(events')].phase = "unknown"]_vars

\* a TED video run has reported a percentage as unknown, read two
\* Destination lines (metadata, then video) and reported the next
\* percentage as video, the video flag being the only one set
C28_Witness ==
    /\ ConsumedLines = <<LnPct50, LnVideo, LnVideo, LnPct50>>
    /\ is_ted_video
    /\ ~audio_only
    /\ events = <<[phase |-> "unknown", percent |-> <<"5","0",".","0">>],
                  [phase |-> "video", percent |-> <<"5","0",".","0">>]>>
    /\ is_downloading_video
    /\ FlagCount = 1

\* ------------------------------------------------------------------------
\* Claim C26 (ReqSpec)
\* ------------------------------------------------------------------------
\* C26: the wait for the output file begins after the external process has
\* exited and looks for a file of the final extension at most 10 times; a
\* file found ends the wait, and after the 10th look without one the run
\* returns None, has moved nothing and has skipped the post-processing, and
\* the handler adds nothing to processed_files for it.
C26_BoundedRetry ==
    /\ [](retries <= 10)
    /\ [](pc = "wait_file" => proc = "exited")
    /\ [][(pc = "wait_file" /\ pc' = "post_process")
          => (/\ retries' = retries
              /\ retries < 10
              /\ file_path' # None
              /\ file_path'[1] \in temp_dir
              /\ file_path'[1].kind = "media")]_vars
    /\ [][(pc = "wait_file" /\ pc' \notin {"wait_file", "post_process"})
          => (/\ retries' = 10
              /\ \A f \in temp_dir : f.kind # "media"
              /\ pc' = "returned"
              /\ result' = None
              /\ temp_dir' = temp_dir)]_vars
    /\ [][(pc = "returned" /\ result = None)
          => processed_files' = processed_files]_vars

\* the run of a single video has looked 10 times after the exit of the
\* process, found no file and returned None; a subtitle file is still there
C26_Witness ==
    /\ pc = "returned"
    /\ url = "other"
    /\ launched = <<1>>
    /\ proc = "exited"
    /\ retries = 10
    /\ result = None
    /\ processed_files = <<>>
    /\ \E f \in temp_dir : f.kind = "srt"

\* ------------------------------------------------------------------------
\* Claims C21, C22 and C24 (CallSpec)
\* ------------------------------------------------------------------------
\* the call that has just returned
LastCall ==
    call_log[Len(call_log)]

\* how many lyric entries (USLT frames) the mp3 file holds
LyricEntries ==
    (IF uslt # <<>> THEN 1 ELSE 0)
        + Cardinality({k \in other_frames :
                          Len(k) >= 4 /\ SubSeq(k, 1, 4) = <<"U","S","L","T">>})

\* C21: after a successful embedding the mp3 file holds exactly one lyric
\* entry, the transcript, whatever lyric entry it held before; a second
\* embedding of the same transcript leaves the file as the first left it.
C21_Idempotent ==
    /\ [][(/\ call_log' # call_log
           /\ call_log'[Len(call_log')].fn = "embed_lyrics_in_mp3"
           /\ call_log'[Len(call_log')].result = "True")
          => (/\ LyricEntries' = 1
              /\ uslt' = lrc_lines')]_vars
    /\ [][(/\ call_log # <<>>
           /\ call_log' # call_log
           /\ LastCall.fn = "embed_lyrics_in_mp3"
           /\ LastCall.result = "True"
           /\ call_log'[Len(call_log')] = LastCall)
          => (uslt' = uslt /\ other_frames' = other_frames)]_vars

\* the mp3_file arguments that name an existing file ending in .mp3,
\* whatever the case of the letters
NamesAnMp3 ==
    /\ mp3_file.exists
    /\ mp3_file.name \in {<<"a",".","m","p","3">>, <<"a",".","M","P","3">>}

C24_NeverRaises ==
    \A i \in 1..Len(call_log) :
        call_log[i].result \in
            {"True", "False", "False: no mp3 file", "False: cannot read",
             "False: ValueError", "False: no lyrics", "False: save failed"}

\* ------------------------------------------------------------------------
\* Claims C27, C29 and C30 (ServeSpec)
\* ------------------------------------------------------------------------
\* the connections whose request is being processed
Handling ==
    {c \in Clients : connections[c].state = "handling"}

\* the positions inside process_single_video
RunPositions ==
    {"run_begin", "read_loop", "wait_file", "post_process", "move_file",
     "cleanup", "returned"}

\* C27: at most one request is being processed at any time, a run belongs
\* to the one request being processed, a download request empties the
\* temporary directory at its start and at its end, and at the start of a
\* request no process of a run is alive, so the cleanup deletes no file of
\* a run in progress.
C27_OneAtATime ==
    /\ [](Cardinality(Handling) <= 1)
    /\ [](pc \in RunPositions => Cardinality(Handling) = 1)
    /\ [][(pc = "idle" /\ pc' = "for_loop")
          => (/\ temp_dir' = {}
              /\ proc \notin {"running", "closed"}
              /\ launched = <<>>)]_vars
    /\ [][(pc = "for_loop" /\ pc' = "done") => temp_dir' = {}]_vars
    /\ [][\A c \in Clients :
             (connections[c].state # "handling"
                 /\ connections'[c].state = "handling")
             => (pc = "serve_forever" /\ proc = "none")]_vars

\* the request of client 2 waits in the queue while the process of a run
\* of client 1's request is alive
C27_Witness ==
    /\ connections[1].state = "handling"
    /\ connections[2].state = "queued"
    /\ connections[2].path = "url"
    /\ pc = "read_loop"
    /\ proc = "running"
    /\ temp_dir # {}

\* C29: in every run of a request with useMP4=true and without audioOnly,
\* the single video and the items of a playlist alike, use_mp4 is true, so
\* the run looks for and moves a .mp4 file.
C29_Mp4Container ==
    (/\ pc \in RunPositions
     /\ current_request.use_mp4
     /\ ~audio_only)
        => /\ use_mp4
           /\ (IF audio_only THEN ".mp3"
               ELSE IF use_mp4 THEN ".mp4" ELSE ".mkv") = ".mp4"

\* a status line has just been sent for the request being processed
StatusSent ==
    status' # status /\ status' # <<>>

\* what holds of every request whatever its outcome: a run adds to
\* processed_files exactly when it returned a file, a request without a url
\* parameter is answered 400 and the requests that are no download requests
\* start no run, and every answered request got one status line
RequestFrame ==
    /\ [][(pc = "returned" /\ pc' = "for_loop")
          => (IF result # None
              THEN Len(processed_files') = Len(processed_files) + 1
              ELSE processed_files' = processed_files)]_vars
    /\ [][(StatusSent /\ current_request.path = "/")
          => status' = <<400>>]_vars
    /\ [](current_request.path # "url"
             => (pc \notin RunPositions /\ launched = <<>>))
    /\ [](\A c \in Clients :
             connections[c].state = "answered"
                 => Len(connections[c].answer) = 1)

====
